---- MODULE Spec2Model ----
(***************************************************************************)
(* smem2: per-process and aggregate memory reporting from /proc.           *)
(*                                                                         *)
(* The model covers the measurement and aggregation engine of              *)
(* src/src/smem2/smem2.py: the /proc readers (Proc, ProcessData), the      *)
(* smaps parser (pidmaps), the per-process totals (pidtotals), the regex   *)
(* filter (filters), the four grouping views (maptotals, usertotals,       *)
(* cmdtotals, mapnametotals) and the system breakdown (get_system_data).   *)
(*                                                                         *)
(* Conventions                                                             *)
(*  - A Python str is a sequence of one-character strings; NUL stands for  *)
(*    the byte "\0" of /proc/<pid>/cmdline.                                *)
(*  - A Python call that may raise returns [exc |-> e, val |-> v]; exc is  *)
(*    "" when the call returns v normally, otherwise the exception name.   *)
(*  - "pss" is the only float-valued field of a mapping (smem2.py:438      *)
(*    divides by 2), so every pss value is held in half-kB units.          *)
(***************************************************************************)
EXTENDS Integers, Sequences, FiniteSets, TLC

VARIABLES
    config,     \* SmemConfig (smem2.py:9-55)
    procfs,     \* /proc/<pid>/... : pid -> the files of that process
    meminfo,    \* /proc/meminfo and the other system-wide measurements
    op,         \* the operation that ran last ("" before any)
    arg,        \* the argument the operation was called with
    ret         \* what it returned: [exc, val]

vars == <<config, procfs, meminfo, op, arg, ret>>

----------------------------------------------------------------------------
(* Bounds of the model *)

MaxPid == 2          \* processes are 1..MaxPid (plus entries that are absent)
MaxProbes == 2       \* number of probe sources handed to filters()
MaxKB == 2           \* meminfo amounts are 0..MaxKB

----------------------------------------------------------------------------
(* Python values *)

NUL == "NUL"
SP == " "

Ok(v) == [exc |-> "", val |-> v]
Raise(e) == [exc |-> e, val |-> <<>>]

Max(a, b) == IF a > b THEN a ELSE b

RECURSIVE SumSeq(_)
SumSeq(s) == IF s = <<>> THEN 0 ELSE Head(s) + SumSeq(Tail(s))

RECURSIVE SetToSeq(_)
\* the elements of a finite set of integers, ascending (os.listdir order is
\* arbitrary; no modelled result depends on it)
SetToSeq(S) ==
    IF S = {} THEN <<>>
    ELSE LET m == CHOOSE x \in S : \A y \in S : x <= y
         IN <<m>> \o SetToSeq(S \ {m})

\* str.lower() on one character
LowerChar(c) ==
    CASE c = "A" -> "a"
      [] c = "B" -> "b"
      [] c = "S" -> "s"
      [] c = "Y" -> "y"
      [] c = "V" -> "v"
      [] OTHER -> c

\* str(n) for the one-digit integers the model uses
Digit(n) == <<"0", "1", "2", "3", "4", "5", "6", "7", "8", "9">>[n + 1]

\* str.split()[0] with no argument: the first whitespace-delimited token,
\* <<>> standing for "split() is empty"
RECURSIVE DropSpaces(_)
DropSpaces(s) ==
    IF s # <<>> /\ Head(s) = SP THEN DropSpaces(Tail(s)) ELSE s

RECURSIVE TakeToken(_)
TakeToken(s) ==
    IF s = <<>> \/ Head(s) = SP THEN <<>>
    ELSE <<Head(s)>> \o TakeToken(Tail(s))

FirstToken(s) == TakeToken(DropSpaces(s))

\* os.path.basename: what follows the last "/"
RECURSIVE Basename(_)
Basename(s) ==
    IF \E i \in 1..Len(s) : s[i] = "/"
    THEN Basename(Tail(s))
    ELSE s

\* str.replace("\0", " ")
ReplaceNul(s) == [i \in 1..Len(s) |-> IF s[i] = NUL THEN SP ELSE s[i]]

\* s[:-1]
DropLast(s) == IF s = <<>> THEN <<>> ELSE SubSeq(s, 1, Len(s) - 1)

----------------------------------------------------------------------------
(* re.search, for the regular expressions the model uses: an optional "^", *)
(* a sequence of literal characters each optionally followed by "*", and   *)
(* an optional "$".  A pattern is [set, bol, atoms, eol]; set = FALSE is   *)
(* Python's None.                                                          *)

NoPattern == [set |-> FALSE, bol |-> FALSE, atoms |-> <<>>, eol |-> FALSE]

Lit(c) == [c |-> c, star |-> FALSE]
Star(c) == [c |-> c, star |-> TRUE]

Search(s) == [set |-> TRUE, bol |-> FALSE, atoms |-> s, eol |-> FALSE]

\* "not opt": None or the empty string
PatternFalsy(p) == ~p.set \/ (~p.bol /\ p.atoms = <<>> /\ ~p.eol)

CharEq(a, b, ignorecase) ==
    IF ignorecase THEN LowerChar(a) = LowerChar(b) ELSE a = b

RECURSIVE MatchHere(_, _, _, _, _)
\* atoms k.. of pattern p match s from position i on
MatchHere(p, k, s, i, ignorecase) ==
    IF k > Len(p.atoms)
    THEN (p.eol => i = Len(s) + 1)
    ELSE LET a == p.atoms[k]
             here == i <= Len(s) /\ CharEq(a.c, s[i], ignorecase)
         IN IF a.star
            THEN \/ MatchHere(p, k + 1, s, i, ignorecase)
                 \/ (here /\ MatchHere(p, k, s, i + 1, ignorecase))
            ELSE here /\ MatchHere(p, k + 1, s, i + 1, ignorecase)

\* re.search(p, s, re.I if ignorecase else 0) is not None
ReSearch(p, s, ignorecase) ==
    \E i \in 1..(IF p.bol THEN 1 ELSE Len(s) + 1) :
        MatchHere(p, 1, s, i, ignorecase)

RECURSIVE FiltersLoop(_, _, _)
\* smem2.py:1136-1139: the loop over the sources, first match wins
FiltersLoop(opt, probes, ignorecase) ==
    IF probes = <<>> THEN TRUE
    ELSE IF ReSearch(opt, Head(probes), ignorecase) THEN FALSE
    ELSE FiltersLoop(opt, Tail(probes), ignorecase)

\* filters() as it would be with the re.I flag never passed
filters_casesensitive(opt, probes, ignorecase) ==
    IF PatternFalsy(opt) THEN FALSE
    ELSE FiltersLoop(opt, probes, FALSE)

\* filters(opt, arg, config, *sources), probes = <<f(arg) : f in sources>>
filters(opt, probes, ignorecase) ==
    IF PatternFalsy(opt) THEN FALSE
    ELSE FiltersLoop(opt, probes, ignorecase)

----------------------------------------------------------------------------
(* Proc and ProcessData: the /proc readers *)

\* A file of /proc is [acc, data]: acc is "ok", "missing" (the entry does not
\* exist: the process exited) or "denied" (open() refuses access).
File(data) == [acc |-> "ok", data |-> data]
Missing == [acc |-> "missing", data |-> <<>>]
Denied == [acc |-> "denied", data |-> <<>>]

\* Proc.read / Proc.readlines on /proc/<pid>/<name>
read(pid, name) ==
    LET f == procfs[pid][name]
    IN CASE f.acc = "missing" -> Raise("RuntimeError")
         [] f.acc = "denied" -> Raise("PermissionError")
         [] OTHER -> Ok(f.data)

QuestionMark == <<"?">>

\* ProcessData.pidcmd
pidcmd(cfg, pid) ==
    LET r == read(pid, "cmdline")
    IN IF r.exc # "" THEN QuestionMark
       ELSE LET c == ReplaceNul(DropLast(r.val))
            IN IF cfg.basename /\ c # <<>>
               THEN IF FirstToken(c) = <<>>
                    THEN QuestionMark          \* split()[0]: IndexError
                    ELSE Basename(FirstToken(c))
               ELSE c

\* ProcessData._iskernel
iskernel(cfg, pid) == pidcmd(cfg, pid) = <<>>

\* ProcessData.piduser: st_uid of /proc/<pid>, -1 when the stat fails
piduser(pid) == IF procfs[pid].stat.acc = "ok" THEN procfs[pid].stat.data ELSE -1

\* UIDCache._getpwuid: the passwd name, or str(uid) when there is none
getpwuid(uid) == IF uid = 0 THEN <<"r">> ELSE <<Digit(uid)>>

\* ProcessData.username
username(uid) == IF uid = -1 THEN QuestionMark ELSE getpwuid(uid)

\* ProcessData.pidusername
pidusername(pid) == username(piduser(pid))

\* ProcessData.pidtostr
pidtostr(pid) == <<Digit(pid)>>

\* ProcessData.pidname
pidname(pid) ==
    LET r == read(pid, "comm")
    IN IF r.exc # "" THEN QuestionMark ELSE DropLast(r.val)

\* Proc.listdir restricted to its numeric entries
listdir == {p \in DOMAIN procfs : procfs[p].listed}

\* the condition of ProcessData.pids without its last conjunct
pidsKeeps_withown(cfg, e) ==
    /\ ~iskernel(cfg, e)
    /\ ((cfg.pid # 0 /\ cfg.pid = e) \/ cfg.pid = 0)

\* the condition of ProcessData.pids without the restriction to config.pid
pidsKeeps_anypid(cfg, e) ==
    /\ ~iskernel(cfg, e)
    /\ ~(e = cfg.ownpid /\ ~PatternFalsy(cfg.processfilter))

\* the condition of the comprehension in ProcessData.pids
pidsKeeps(cfg, e) ==
    /\ ~iskernel(cfg, e)
    /\ ((cfg.pid # 0 /\ cfg.pid = e) \/ cfg.pid = 0)
    /\ ~(e = cfg.ownpid /\ ~PatternFalsy(cfg.processfilter))

\* ProcessData.pids
pids(cfg) == SetToSeq({e \in listdir : pidsKeeps(cfg, e)})

\* ProcessData.mapdata
mapdata(cfg, pid) ==
    LET roll == read(pid, "smaps_rollup")
        full == read(pid, "smaps")
    IN IF cfg.rollup /\ roll.exc = "" THEN roll.val
       ELSE IF full.exc = "" THEN full.val
       ELSE <<>>

----------------------------------------------------------------------------
(* pidmaps: the smaps parser (smem2.py:367-477) *)

\* A line of smaps text is one of
\*   [t |-> "hdr", start |-> n, name |-> s]   "start-end perms off maj:min ino [s]"
\*   [t |-> "fld", key |-> k, val |-> n]      "k:  n kB"
\*   [t |-> "other"]                          a line of neither shape whose first
\*                                            token holds no "-" ("VmFlags: rd ex")
\*   [t |-> "empty"]                          a line without any token
\*   [t |-> "dash"]                           a line not ending in kB whose first
\*                                            token holds "-" and no ":" but is
\*                                            no hex range ("foo-bar baz")
\* A line of status text is [key |-> k, val |-> n]: "k:\t n kB".

Hdr(start, name) == [t |-> "hdr", start |-> start, name |-> name]
Fld(key, val) == [t |-> "fld", key |-> key, val |-> val]
Other == [t |-> "other"]
Empty == [t |-> "empty"]
Dash == [t |-> "dash"]

Anonymous == <<"<", "a", "n", "o", "n", "y", "m", "o", "u", "s", ">">>

\* f[0][:-1].lower() for the field names of smaps
LowerKey(k) ==
    CASE k = "Pss" -> "pss"
      [] k = "Rss" -> "rss"
      [] k = "Size" -> "size"
      [] k = "Swap" -> "swap"
      [] k = "SwapPss" -> "swappss"
      [] k = "Shared_Clean" -> "shared_clean"
      [] k = "Shared_Dirty" -> "shared_dirty"
      [] k = "Private_Clean" -> "private_clean"
      [] k = "Private_Dirty" -> "private_dirty"
      [] k = "Referenced" -> "referenced"
      [] k = "Pss_Anon" -> "pss_anon"
      [] k = "Pss_File" -> "pss_file"
      [] k = "Pss_Shmem" -> "pss_shmem"
      [] OTHER -> k

\* dict.get(k, 0)
Get(d, k) == IF k \in DOMAIN d THEN d[k] ELSE 0

\* d[k] = v
Put(d, k, v) == [x \in DOMAIN d \cup {k} |-> IF x = k THEN v ELSE d[x]]

\* the value stored for a field: pss in half-kB units, the rest in kB
Stored(k, v) == IF k = "pss" THEN 2 * v ELSE v

NoStart == -1      \* start = None

\* smem2.py:404-425: the record a header line creates (the address, permission
\* and device fields, which nothing reads, are left out)
NewRecord(cfg, name) ==
    [name |-> name,
     f |-> [k \in {"pss", "rss", "uss", "swap", "swappss", "pcent", "size"}
                 \cup (IF cfg.pssdetail
                       THEN {"pss_anon", "pss_file", "pss_shmem"} ELSE {})
            |-> 0]]

\* smem2.py:393-429: one iteration of the loop over the lines
ParseLine(cfg, st, l, nomaps) ==
    CASE l.t = "empty" -> [st EXCEPT !.exc = "IndexError"]      \* f[-1] of []
      [] l.t = "dash" -> [st EXCEPT !.exc = "ValueError"]       \* int(start, 16)
      [] l.t = "fld" ->
            IF st.start \notin DOMAIN st.maps
            THEN [st EXCEPT !.exc = "KeyError"]
            ELSE [st EXCEPT !.maps[st.start].f =
                      Put(@, LowerKey(l.key), Stored(LowerKey(l.key), l.val))]
      [] l.t = "hdr" ->
            LET name == IF l.name = <<>> THEN Anonymous
                        ELSE IF cfg.basename THEN Basename(l.name)
                        ELSE l.name
            IN [st EXCEPT !.start = l.start,
                          !.maps = Put(st.maps, l.start, NewRecord(cfg, name)),
                          !.done = nomaps]
      [] OTHER -> st

RECURSIVE ParseLines(_, _, _, _)
ParseLines(cfg, lines, st, nomaps) ==
    IF lines = <<>> \/ st.exc # "" \/ st.done THEN st
    ELSE ParseLines(cfg, Tail(lines),
                    ParseLine(cfg, st, Head(lines), nomaps), nomaps)

\* smem2.py:433-441: uss, pss and rss derived from the page counts
Derive(maps) ==
    [m \in DOMAIN maps |->
        LET f == maps[m].f
            uss == Get(f, "private_clean") + Get(f, "private_dirty")
            g == Put(f, "uss", uss)
            h == Put(g, "pss", 2 * uss + Get(f, "shared_clean"))
        IN [maps[m] EXCEPT !.f =
               Put(h, "rss", Get(f, "shared_clean") + Get(f, "shared_dirty"))]]

RssKey(k) ==
    CASE k = "RssAnon" -> "rss_anon"
      [] k = "RssFile" -> "rss_file"
      [] k = "RssShmem" -> "rss_shmem"
      [] OTHER -> ""

RECURSIVE RssDetail(_, _)
\* smem2.py:444-450: the Rss* lines of status go to the last-seen mapping
RssDetail(st, status) ==
    IF status = <<>> \/ st.exc # "" THEN st
    ELSE LET s == Head(status)
         IN IF RssKey(s.key) = "" THEN RssDetail(st, Tail(status))
            ELSE IF st.start \notin DOMAIN st.maps
            THEN [st EXCEPT !.exc = "KeyError"]
            ELSE RssDetail(
                    [st EXCEPT !.maps[st.start].f = Put(@, RssKey(s.key), s.val)],
                    Tail(status))

\* smem2.py:453-468: VmSize of status becomes the size of the mappings
VmSize(cfg, st, status) ==
    LET hits == {i \in 1..Len(status) : status[i].key = "VmSize"}
    IN IF hits = {} THEN st
       ELSE LET first == CHOOSE i \in hits : \A j \in hits : i <= j
                total == status[first].val
                n == Cardinality(DOMAIN st.maps)
            IN IF cfg.rollup /\ st.start # NoStart /\ st.start # 0
               THEN [st EXCEPT !.maps[st.start].f = Put(@, "size", total)]
               ELSE IF n = 0 THEN st
               ELSE [st EXCEPT !.maps =
                        [m \in DOMAIN st.maps |->
                            [st.maps[m] EXCEPT !.f = Put(@, "size", total \div n)]]]

\* the mapping-name filter as it would be if it dropped the matching records
MapFilter_inverted(cfg, maps) ==
    LET keep == {m \in DOMAIN maps :
                    filters(cfg.mapfilter, <<maps[m].name>>, cfg.ignorecase)}
    IN [m \in keep |-> maps[m]]

\* smem2.py:471-476: the mapping-name filter
MapFilter(cfg, maps) ==
    LET keep == {m \in DOMAIN maps :
                    ~filters(cfg.mapfilter, <<maps[m].name>>, cfg.ignorecase)}
    IN [m \in keep |-> maps[m]]

\* smem2.py:386-390: the lines of status, <<>> for None and for an empty
\* text (both falsy)
StatusLines(cfg, pid) ==
    IF (cfg.rollup \/ cfg.pssdetail \/ cfg.rssdetail) /\ read(pid, "status").exc = ""
    THEN read(pid, "status").val ELSE <<>>

\* smem2.py:383-384: maps = {}, start = None
NoRecords == [maps |-> <<>>, start |-> NoStart, exc |-> "", done |-> FALSE]

\* smem2.py:432-441: "if not config.rollup: if not config.pssdetail:"
Derived(cfg, st) ==
    IF st.exc = "" /\ ~cfg.rollup /\ ~cfg.pssdetail
    THEN [st EXCEPT !.maps = Derive(st.maps)] ELSE st

\* smem2.py:442-450: "if config.rssdetail and status:" under "not rollup"
Detailed(cfg, st, status) ==
    IF st.exc = "" /\ ~cfg.rollup /\ cfg.rssdetail
    THEN RssDetail(st, status) ELSE st

\* smem2.py:452-468: "if status:" under "not rollup"
Sized(cfg, st, status) ==
    IF st.exc = "" /\ ~cfg.rollup THEN VmSize(cfg, st, status) ELSE st

\* smem2.py:470-477: the mapping filter and the return
Filtered(cfg, st, nomaps) ==
    IF st.exc # "" THEN Raise(st.exc)
    ELSE IF ~PatternFalsy(cfg.mapfilter) /\ ~nomaps
    THEN Ok(MapFilter(cfg, st.maps))
    ELSE Ok(st.maps)

\* pidmaps(pid, proc, config, nomaps): [exc, val], val the dict start -> record
RecordsFrom(cfg, lines, status, nomaps) ==
    Filtered(cfg,
             Sized(cfg,
                   Detailed(cfg,
                            Derived(cfg, ParseLines(cfg, lines, NoRecords, nomaps)),
                            status),
                   status),
             nomaps)

pidmaps(cfg, pid, nomaps) ==
    RecordsFrom(cfg, mapdata(cfg, pid), StatusLines(cfg, pid), nomaps)

----------------------------------------------------------------------------
(* pidtotals (smem2.py:511-546) *)

RECURSIVE SumOver(_, _, _)
\* sum(m.get(k, 0) for m in maps.values()), over the keys in todo
SumOver(maps, todo, k) ==
    IF todo = {} THEN 0
    ELSE LET m == CHOOSE x \in todo : TRUE
         IN Get(maps[m].f, k) + SumOver(maps, todo \ {m}, k)

Total(maps, k) == SumOver(maps, DOMAIN maps, k)

TotalsKeys(cfg) ==
    {"pss", "rss", "uss", "swap", "size", "maps"}
    \cup (IF cfg.swappss THEN {"swappss"} ELSE {})
    \cup (IF cfg.pssdetail THEN {"pss_anon", "pss_file", "pss_shmem"} ELSE {})
    \cup (IF cfg.rssdetail THEN {"rss_anon", "rss_file", "rss_shmem"} ELSE {})

\* the totals dict of a non-empty record set
TotalsOf(cfg, maps) ==
    [k \in TotalsKeys(cfg) |->
        CASE k = "uss" -> Total(maps, "private_clean") + Total(maps, "private_dirty")
          [] k = "maps" -> Cardinality(DOMAIN maps)
          [] OTHER -> Total(maps, k)]

\* smem2.py:521-546: totals = {}, filled only "if maps:"
TotalsFrom(cfg, r) ==
    IF r.exc # "" THEN r
    ELSE IF DOMAIN r.val = {} THEN Ok(<<>>)
    ELSE Ok(TotalsOf(cfg, r.val))

\* pidtotals(pid, proc, config): [exc, val], val = <<>> for the empty dict
pidtotals(cfg, pid) == TotalsFrom(cfg, pidmaps(cfg, pid, FALSE))

----------------------------------------------------------------------------
(* The grouping views (smem2.py:480-631, 698-810) *)

\* the filter test every view starts its loop body with: TRUE = skip the pid
Skipped(cfg, p) ==
    \/ filters(cfg.processfilter, <<pidcmd(cfg, p), pidtostr(p), pidname(p)>>,
               cfg.ignorecase)
    \/ filters(cfg.userfilter, <<pidusername(p)>>, cfg.ignorecase)

\* smem2.py:503-507: the entry of a pid, the totals laid over {"maps": maps}
Entry(maps, totals) ==
    [k \in {"maps"} \cup DOMAIN totals |->
        IF k \in DOMAIN totals THEN totals[k] ELSE maps]

RECURSIVE maptotalsLoop(_, _, _)
\* smem2.py:501-507: the body of the loop for an unfiltered pid, m its
\* pidmaps and t its pidtotals (computed only when m is non-empty)
maptotalsBody(cfg, ps, pt, m, t) ==
    IF m.exc # "" THEN m
    ELSE IF DOMAIN m.val = {} THEN maptotalsLoop(cfg, Tail(ps), pt)
    ELSE IF t.exc # "" THEN t
    ELSE maptotalsLoop(cfg, Tail(ps), Put(pt, Head(ps), Entry(m.val, t.val)))

\* smem2.py:496-507: "for p in pids"
maptotalsLoop(cfg, ps, pt) ==
    IF ps = <<>> THEN Ok(pt)
    ELSE IF Skipped(cfg, Head(ps)) THEN maptotalsLoop(cfg, Tail(ps), pt)
    ELSE maptotalsBody(cfg, ps, pt, pidmaps(cfg, Head(ps), FALSE),
                       pidtotals(cfg, Head(ps)))

\* maptotals(pids, proc, config): [exc, val], val the dict pid -> entry
maptotals(cfg, ps) == maptotalsLoop(cfg, ps, <<>>)

ProcessTotalsKeys(cfg) ==
    {"uss", "pss", "rss", "swap", "size"}
    \cup (IF cfg.swappss THEN {"swappss"} ELSE {})

RECURSIVE processtotalsLoop(_, _, _)
\* smem2.py:716-719: the totals pt of one pid, added to t
processtotalsBody(cfg, ps, t, pt) ==
    IF pt.exc # "" THEN pt
    ELSE processtotalsLoop(cfg, Tail(ps), [k \in DOMAIN t |-> t[k] + Get(pt.val, k)])

\* smem2.py:714-719: "for p in pids"
processtotalsLoop(cfg, ps, t) ==
    IF ps = <<>> THEN Ok(t)
    ELSE processtotalsBody(cfg, ps, t, pidtotals(cfg, Head(ps)))

\* processtotals(pids, proc, config)
processtotals(cfg, ps) == processtotalsLoop(cfg, ps, [k \in ProcessTotalsKeys(cfg) |-> 0])

RECURSIVE GroupTotals(_, _, _, _)
\* the totals t of group k, stored; an exception ends the loop
GroupTotalsBody(cfg, g, todo, out, k, t) ==
    IF t.exc # "" THEN t
    ELSE GroupTotals(cfg, g, todo \ {k}, Put(out, k, t.val))

\* the key the loop takes next
NextKey(todo) == CHOOSE x \in todo : TRUE

\* the loops "for u in ut: ut[u]["totals"] = processtotals(ut[u]["pids"])",
\* over the keys in todo; the first exception ends the loop
GroupTotals(cfg, g, todo, out) ==
    IF todo = {} THEN Ok(out)
    ELSE GroupTotalsBody(cfg, g, todo, out, NextKey(todo),
                         processtotals(cfg, g[NextKey(todo)]))

\* d[k] = [p]: the member list overwritten instead of appended to
AppendTo_overwrite(d, k, p) == Put(d, k, <<p>>)

\* d[k].append(p), d[k] created on its first member
AppendTo(d, k, p) ==
    IF k \in DOMAIN d THEN [d EXCEPT ![k] = Append(@, p)] ELSE Put(d, k, <<p>>)

RECURSIVE UserGroups(_, _, _)
\* smem2.py:564-573: the member list of every user id
UserGroups(cfg, ps, ut) ==
    IF ps = <<>> THEN ut
    ELSE LET p == Head(ps)
         IN IF Skipped(cfg, p) THEN UserGroups(cfg, Tail(ps), ut)
            ELSE UserGroups(cfg, Tail(ps), AppendTo(ut, piduser(p), p))

\* smem2.py:571-577: the groups g with their names and totals t
UserResult(g, t) ==
    IF t.exc # "" THEN t
    ELSE Ok([u \in DOMAIN g |->
                [pids |-> g[u], name |-> username(u), totals |-> t.val[u]]])

UserEntries(cfg, g) == UserResult(g, GroupTotals(cfg, g, DOMAIN g, <<>>))

\* usertotals(pids, proc, config): [exc, val], val the dict uid -> group
usertotals(cfg, ps) == UserEntries(cfg, UserGroups(cfg, ps, <<>>))

\* the whole command line as the key, arguments included
CmdKey_wholeline(cfg, p) == pidcmd(cfg, p)

\* smem2.py:608-611: parts[0], <<>> when split() is empty
CmdKey(cfg, p) == FirstToken(pidcmd(cfg, p))

RECURSIVE CmdGroups(_, _, _)
\* smem2.py:599-618: the member list of every command
CmdGroups(cfg, ps, ct) ==
    IF ps = <<>> THEN ct
    ELSE LET p == Head(ps)
         IN IF Skipped(cfg, p) \/ pidcmd(cfg, p) = <<>> \/ CmdKey(cfg, p) = <<>>
            THEN CmdGroups(cfg, Tail(ps), ct)
            ELSE CmdGroups(cfg, Tail(ps), AppendTo(ct, CmdKey(cfg, p), p))

\* smem2.py:628-630: a command whose totals dict is empty is deleted
CmdSurvives(totals) == DOMAIN totals # {}

\* smem2.py:620-631: the groups g with their totals t, names and users
CmdResult(g, t) ==
    IF t.exc # "" THEN t
    ELSE Ok([c \in {x \in DOMAIN g : CmdSurvives(t.val[x])} |->
                [pids |-> g[c], totals |-> t.val[c], name |-> c,
                 user |-> pidusername(Head(g[c]))]])

CmdEntries(cfg, g) == CmdResult(g, GroupTotals(cfg, g, DOMAIN g, <<>>))

\* cmdtotals(pids, proc, config): [exc, val], val the dict command -> group
cmdtotals(cfg, ps) == CmdEntries(cfg, CmdGroups(cfg, ps, <<>>))

MapNameKeys(cfg) ==
    {"size", "rss", "pss", "shared_clean", "shared_dirty", "private_clean",
     "count", "private_dirty", "referenced", "swap", "pids"}
    \cup (IF cfg.swappss THEN {"swappss"} ELSE {})

RECURSIVE AddMaps_noseen(_, _, _, _, _)
\* the loop with "pids" counted for every record, the seen test left out
AddMaps_noseen(cfg, maps, todo, seen, totals) ==
    IF todo = {} THEN totals
    ELSE LET m == CHOOSE x \in todo : TRUE
             name == maps[m].name
             t0 == IF name \in DOMAIN totals THEN totals[name]
                   ELSE [k \in MapNameKeys(cfg) |-> 0]
             t1 == [k \in DOMAIN t0 |-> t0[k] + Get(maps[m].f, k)]
             t2 == [t1 EXCEPT !["count"] = @ + 1, !["pids"] = @ + 1]
         IN AddMaps_noseen(cfg, maps, todo \ {m}, seen, Put(totals, name, t2))

RECURSIVE AddMaps(_, _, _, _, _)
\* smem2.py:781-807: the records of one process, added to the groups
AddMaps(cfg, maps, todo, seen, totals) ==
    IF todo = {} THEN totals
    ELSE LET m == CHOOSE x \in todo : TRUE
             name == maps[m].name
             t0 == IF name \in DOMAIN totals THEN totals[name]
                   ELSE [k \in MapNameKeys(cfg) |-> 0]
             t1 == [k \in DOMAIN t0 |-> t0[k] + Get(maps[m].f, k)]
             t2 == [t1 EXCEPT !["count"] = @ + 1]
             t3 == IF name \in seen THEN t2 ELSE [t2 EXCEPT !["pids"] = @ + 1]
         IN AddMaps(cfg, maps, todo \ {m}, seen \cup {name}, Put(totals, name, t3))

RECURSIVE mapnametotalsLoop(_, _, _)
\* smem2.py:778-809: the try block for one pid, m its pidmaps
mapnametotalsBody(cfg, ps, totals, m) ==
    IF m.exc \in {"OSError", "IOError"}
    THEN mapnametotalsLoop(cfg, Tail(ps), totals)
    ELSE IF m.exc # "" THEN m
    ELSE mapnametotalsLoop(cfg, Tail(ps),
                           AddMaps(cfg, m.val, DOMAIN m.val, {}, totals))

\* smem2.py:772-809: "for pid in pids"
mapnametotalsLoop(cfg, ps, totals) ==
    IF ps = <<>> THEN Ok(totals)
    ELSE IF Skipped(cfg, Head(ps)) THEN mapnametotalsLoop(cfg, Tail(ps), totals)
    ELSE mapnametotalsBody(cfg, ps, totals, pidmaps(cfg, Head(ps), FALSE))

\* mapnametotals(pids, proc, config): [exc, val], val the dict name -> totals
mapnametotals(cfg, ps) == mapnametotalsLoop(cfg, ps, <<>>)

----------------------------------------------------------------------------
(* The system breakdown (smem2.py:334-364, 845-1052) *)

\* The system-wide sources are the record meminfo:
\*   mem      /proc/meminfo as MemData parses it, a File of key -> kB
\*   dmi      the RAM size dmidecode reports in kB, 0 when it prints none
\*   size     the output of "size <kernel>": [ok, data, dec] in bytes
\*   modules  /proc/modules, a File of the second token of every line:
\*            a byte count, or -1 for a token int() rejects
\*   mounts   /proc/mounts, a File of [ramfs, du]: whether the line holds
\*            "ramfs" and the kB "du -sk" prints for it, -1 when du fails

SysvPattern ==      \* "^/SYSV*"
    [set |-> TRUE, bol |-> TRUE,
     atoms |-> <<Lit("/"), Lit("S"), Lit("Y"), Lit("S"), Star("V")>>,
     eol |-> FALSE]

DevZeroPattern ==   \* "^/dev/zero$"
    [set |-> TRUE, bol |-> TRUE,
     atoms |-> <<Lit("/"), Lit("d"), Lit("e"), Lit("v"), Lit("/"),
                 Lit("z"), Lit("e"), Lit("r"), Lit("o")>>,
     eol |-> TRUE]

\* MemData.__call__ on a parsed /proc/meminfo
MemHas(keys) == keys \subseteq DOMAIN meminfo.mem.data

\* totalmem(config), in kB; config.realmem is held in kB, 0 for None
totalmem(cfg) ==
    IF cfg.realmem # 0 THEN Ok(cfg.realmem)
    ELSE IF (cfg.system \/ cfg.sysdetail) /\ meminfo.dmi # 0 THEN Ok(meminfo.dmi)
    ELSE IF meminfo.mem.acc # "ok" THEN Raise("RuntimeError")
    ELSE IF ~MemHas({"memtotal"}) THEN Raise("KeyError")
    ELSE Ok(meminfo.mem.data["memtotal"])

\* kernelsize(config): int(int(d[3]) / 1024 + 0.5), 0 on every failure
kernelsize(cfg) ==
    IF cfg.kernel /\ meminfo.size.ok /\ meminfo.size.data # 0
    THEN (meminfo.size.dec + 512) \div 1024
    ELSE 0

RECURSIVE modsum(_, _)
\* smem2.py:1046-1047: the loop adding the sizes, ended by the first bad token
modsum(md, ms) ==
    IF md = <<>> THEN [exc |-> FALSE, ms |-> ms]
    ELSE IF Head(md) < 0 THEN [exc |-> TRUE, ms |-> ms]
    ELSE modsum(Tail(md), ms + Head(md))

\* kernelmodsize(proc, config)
kernelmodsize ==
    IF meminfo.modules.acc # "ok" THEN 0
    ELSE LET r == modsum(meminfo.modules.data, 0)
         IN IF r.exc THEN r.ms ELSE r.ms \div 1024

\* smem2.py:887-895: the kB of the ramfs mounts, a failing du adding nothing
ramfsSum == SumSeq([i \in 1..Len(meminfo.mounts.data) |->
                      LET r == meminfo.mounts.data[i]
                      IN IF r.ramfs /\ r.du >= 0 THEN r.du ELSE 0])

\* smem2.py:970-973, 989-992: int() of the sum of the pss of the entries
PssSum(pt) ==
    LET ps == SetToSeq(DOMAIN pt)
    IN SumSeq([i \in 1..Len(ps) |-> pt[ps[i]]["pss"]]) \div 2

\* smem2.py:969-973, 988-992: the sum over the result pt of maptotals
PssOf(pt) == IF pt.exc # "" THEN pt ELSE Ok(PssSum(pt.val))

\* mapshared / mapdevzero: maptotals under the overwritten mapping filter
mapwith(cfg, pattern) ==
    PssOf(maptotals([cfg EXCEPT !.mapfilter = pattern], pids(cfg)))

mapshared(cfg) == mapwith(cfg, SysvPattern)
mapdevzero(cfg) == mapwith(cfg, DevZeroPattern)

BasicKeys == {"memtotal", "memfree", "anonpages", "mapped", "buffers",
              "sreclaimable", "cached"}
DetailKeys == {"shmem", "pagetables", "kernelstack", "slab"}
ExtendedKeys == {"unevictable", "dirty", "swaptotal", "swapfree", "memavailable"}

\* Python's "sub in s" on strings
Contains(s, sub) ==
    \E i \in 0..(Len(s) - Len(sub)) : SubSeq(s, i + 1, i + Len(sub)) = sub

ColAll == <<"a", "l", "l">>
ColDetails == <<"d", "e", "t", "a", "i", "l", "s">>
ColMaps == <<"m", "a", "p", "s">>

\* the test with "details" left out
WantsExtended_allonly(cfg) == Contains(cfg.columns, ColAll)

\* "all" in config.columns or "details" in config.columns
WantsExtended(cfg) ==
    Contains(cfg.columns, ColAll) \/ Contains(cfg.columns, ColDetails)

\* smem2.py:915-951: the rows, from the values computed before
BasicRows(fh, kernel, kd, kdc, u, mapped, f) ==
    << <<"firmware/hardware", fh, 0>>,
       <<"kernel image", kernel, 0>>,
       <<"kernel dynamic memory", kd, kdc>>,
       <<"userspace memory", u, mapped>>,
       <<"free memory", f, f>> >>

DetailRows(m, fh, kernel, modules, filecache, shm, ramfs, unknown, u, mapped, f) ==
    << <<"firmware/hardware", fh, 0, 0>>,
       <<"kernel image", kernel, 0, 0>>,
       <<"kernel modules", modules, 0, 0>>,
       <<"page tables", m["pagetables"], 0, 0>>,
       <<"kernel stack", m["kernelstack"], 0, 0>>,
       <<"slab (all/SReclaimable)", m["slab"], m["sreclaimable"], 0>>,
       <<"buffers", m["buffers"], m["buffers"], 0>>,
       <<"cached (w/o mapped,tmpfs,ramfs)", filecache, filecache, 0>>,
       <<"shared (non process tmpfs)", shm, 0, 0>>,
       <<"ramfs", ramfs, 0, 0>>,
       <<"unknown", unknown, 0, 0>>,
       <<"processes (all/mapped files)", u, mapped, 0>>,
       <<"free memory", f, f, 0>> >>

ExtendedRows(m, mapzero, shmp) ==
    << <<"-------------------------------", 0, 0, 0>>,
       <<"/dev/zero mapped", 0, 0, mapzero>>,
       <<"shared by processes", 0, 0, shmp>>,
       <<"unevictable", 0, 0, m["unevictable"]>>,
       <<"dirty (unwritten to file)", 0, 0, m["dirty"]>>,
       <<"swapped", 0, 0, m["swaptotal"] - m["swapfree"]>>,
       <<"available (estimated)", 0, 0, m["memavailable"]>> >>

\* the remainder as the subtraction leaves it
Unknown_unclamped(m, f, u, modules, filecache, shm, ramfs) ==
    m["memtotal"] - f - u
    - (modules + m["pagetables"] + m["kernelstack"] + m["slab"]
       + m["buffers"] + filecache + shm + ramfs)

\* the remainder with the free memory left in it
Unknown_withfree(m, f, u, modules, filecache, shm, ramfs) ==
    LET unknown == m["memtotal"] - u
                   - (modules + m["pagetables"] + m["kernelstack"] + m["slab"]
                      + m["buffers"] + filecache + shm + ramfs)
    IN IF unknown < 0 THEN 0 ELSE unknown

\* smem2.py:897-913: the remainder, never below 0
Unknown(m, f, u, modules, filecache, shm, ramfs) ==
    LET unknown == m["memtotal"] - f - u
                   - (modules + m["pagetables"] + m["kernelstack"] + m["slab"]
                      + m["buffers"] + filecache + shm + ramfs)
    IN IF unknown < 0 THEN 0 ELSE unknown

\* smem2.py:882-942: detailed mode, shmp and mapzero the helpers' results
DetailWith(cfg, m, fh, kernel, u, f, shmp, mapzero) ==
    LET mapped == m["mapped"] - mapzero.val
        modules == kernelmodsize
        shm == m["shmem"] - shmp.val
        ramfs == ramfsSum
        filecache == m["cached"] - mapped - shm - ramfs
        unknown == Unknown(m, f, u, modules, filecache, shm, ramfs)
    IN IF shmp.exc # "" THEN shmp
       ELSE IF mapzero.exc # "" THEN mapzero
       ELSE IF ~MemHas({"shmem"}) THEN Raise("KeyError")
       ELSE IF meminfo.mounts.acc = "missing" THEN Raise("RuntimeError")
       ELSE IF meminfo.mounts.acc = "denied" THEN Raise("PermissionError")
       ELSE IF ~MemHas(DetailKeys) THEN Raise("KeyError")
       ELSE IF WantsExtended(cfg) /\ ~MemHas(ExtendedKeys) THEN Raise("KeyError")
       ELSE Ok(DetailRows(m, fh, kernel, modules, filecache, shm, ramfs,
                          unknown, u, mapped, f)
               \o (IF WantsExtended(cfg)
                   THEN ExtendedRows(m, mapzero.val, shmp.val) ELSE <<>>))

\* smem2.py:877-942: detailed mode
DetailData(cfg, m, fh, kernel, u, f) ==
    DetailWith(cfg, m, fh, kernel, u, f, mapshared(cfg), mapdevzero(cfg))

\* get_system_data(proc, config): [exc, val], val the sequence of rows
get_system_data(cfg) ==
    LET t == totalmem(cfg)
        m == meminfo.mem.data
        f == m["memfree"]
        kernel == kernelsize(cfg)
        u == m["anonpages"] + m["mapped"]
        fh == Max(t.val - m["memtotal"] - kernel, 0)
        kd == m["memtotal"] - f - u
        kdc == m["buffers"] + m["sreclaimable"] + m["cached"] - m["mapped"]
    IN IF t.exc # "" THEN t
       ELSE IF meminfo.mem.acc # "ok" THEN Raise("RuntimeError")
       ELSE IF ~MemHas(BasicKeys) THEN Raise("KeyError")
       ELSE IF cfg.sysdetail THEN DetailData(cfg, m, fh, kernel, u, f)
       ELSE Ok(BasicRows(fh, kernel, kd, kdc, u, m["mapped"], f))

\* the mapping filter get_system_data leaves in config (smem2.py:968, 987)
SystemMapFilter(cfg) ==
    LET t == totalmem(cfg)
    IN IF t.exc # "" \/ meminfo.mem.acc # "ok" \/ ~MemHas(BasicKeys)
          \/ ~cfg.sysdetail
       THEN cfg.mapfilter
       ELSE IF mapshared(cfg).exc # "" THEN SysvPattern
       ELSE DevZeroPattern

----------------------------------------------------------------------------
(* setdatasources: capability detection (smem2.py:1055-1113) *)

OwnPid == 1         \* os.getpid(): the tool is process 1 of the image

\* the result of setdatasources: the exception raised, if any, and config as
\* the call leaves it
Left(e, cfg) == [exc |-> e, val |-> cfg]

\* the condition with "and not config.groupcmd" left out
FullSmapsNeeded_all(cfg) ==
    \/ ~PatternFalsy(cfg.mapfilter)
    \/ cfg.mappings
    \/ Contains(cfg.columns, ColMaps)
    \/ Contains(cfg.columns, ColAll)

\* smem2.py:1106-1111: "some smem2 features need full smaps"
FullSmapsNeeded(cfg) ==
    \/ ~PatternFalsy(cfg.mapfilter)
    \/ cfg.mappings
    \/ Contains(cfg.columns, ColMaps)
    \/ (Contains(cfg.columns, ColAll) /\ ~cfg.groupcmd)

\* smem2.py:1105-1113
FastPath(cfg) == IF FullSmapsNeeded(cfg) THEN [cfg EXCEPT !.rollup = FALSE] ELSE cfg

\* list(map_data.keys())[0]: the first key of the dict
FirstKey(maps) == CHOOSE k \in DOMAIN maps : \A j \in DOMAIN maps : k <= j

\* smem2.py:1087-1103: the capabilities, read off the keys of the record
Capabilities(cfg, map_data) ==
    [cfg EXCEPT !.swappss = "swappss" \in DOMAIN map_data.f,
                !.pssdetail = "pss_anon" \in DOMAIN map_data.f]

\* smem2.py:1081-1113: what follows the probe m = pidmaps(ownpid, nomaps=True)
Detected(cfg, m) ==
    IF m.exc # "" THEN Left(m.exc, cfg)
    ELSE IF DOMAIN m.val = {} THEN Left("IndexError", cfg)
    ELSE Left("", FastPath(Capabilities(cfg, m.val[FirstKey(m.val)])))

\* smem2.py:1075-1081: rssdetail from the status of the tool's own process
Probe(cfg, rd) ==
    IF rd.exc # "" THEN Left(rd.exc, cfg)
    ELSE Detected([cfg EXCEPT !.rssdetail =
                        \E i \in DOMAIN rd.val : rd.val[i].key = "RssAnon"],
                  pidmaps([cfg EXCEPT !.rssdetail =
                              \E i \in DOMAIN rd.val : rd.val[i].key = "RssAnon"],
                          cfg.ownpid, TRUE))

\* setdatasources(config, proc): [exc, val], val the config it leaves
setdatasources(cfg) ==
    Probe([cfg EXCEPT !.ownpid = OwnPid, !.rssdetail = FALSE,
                      !.pssdetail = TRUE, !.rollup = TRUE],
          read(OwnPid, "status"))

----------------------------------------------------------------------------
(* showtable: sorting and printing (__main__.py:168-278) *)

\* A row of the process table is [pid, command, pss]: what the getters
\* fields[c][1] return for it. The columns are pid, command and pss; percent
\* and abbreviate are off, so that showamount returns the amount itself, and
\* the padding of the column formats is left out of the printed values.
TableFields == {"pid", "command", "pss"}

\* ord() of the letters used in commands
Code(c) ==
    CASE c = "A" -> 65 [] c = "B" -> 66 [] c = "a" -> 97 [] c = "b" -> 98
      [] OTHER -> 63

RECURSIVE StrLess(_, _)
\* a < b for str
StrLess(a, b) ==
    IF b = <<>> THEN FALSE
    ELSE IF a = <<>> THEN TRUE
    ELSE IF Head(a) = Head(b) THEN StrLess(Tail(a), Tail(b))
    ELSE Code(Head(a)) < Code(Head(b))

\* [fields[c][1](n) for c in columns]
Cells(row) == <<row.pid, row.command, row.pss>>

\* r1 < r2 for the lists of cells
CellsLess(r1, r2) ==
    \/ r1[1] < r2[1]
    \/ r1[1] = r2[1] /\ StrLess(r1[2], r2[2])
    \/ r1[1] = r2[1] /\ r1[2] = r2[2] /\ r1[3] < r2[3]

\* a < b for the values of field sort
ValueLess(sort, a, b) == IF sort = "command" THEN StrLess(a, b) ELSE a < b

\* x < y as l.sort compares the entries (fields[sort][1](n), r): by the
\* lower-cased key alone for the command, else as tuples
EntryLess(sort, x, y) ==
    IF sort = "command" THEN StrLess([i \in 1..Len(x.k) |-> LowerChar(x.k[i])],
                                     [i \in 1..Len(y.k) |-> LowerChar(y.k[i])])
    ELSE \/ ValueLess(sort, x.k, y.k)
         \/ x.k = y.k /\ CellsLess(x.r, y.r)

\* the comparison as it would be if reverse were never passed to sort
Before_forward(sort, reverse, x, y) == EntryLess(sort, x, y)

\* x goes before y: list.sort(reverse=...) keeps the order of equal entries
Before(sort, reverse, x, y) ==
    IF reverse THEN EntryLess(sort, y, x) ELSE EntryLess(sort, x, y)

RECURSIVE InsertEntry(_, _, _, _)
\* x put before the first entry it goes before
InsertEntry(sort, reverse, x, l) ==
    IF l = <<>> THEN <<x>>
    ELSE IF Before(sort, reverse, x, Head(l)) THEN <<x>> \o l
    ELSE <<Head(l)>> \o InsertEntry(sort, reverse, x, Tail(l))

RECURSIVE SortEntries(_, _, _, _)
\* __main__.py:216-224: l.sort of the entries, the first n of them
SortEntries(sort, reverse, l, n) ==
    IF n = 0 THEN <<>>
    ELSE InsertEntry(sort, reverse, l[n], SortEntries(sort, reverse, l, n - 1))

\* __main__.py:216-219: l = [(fields[sort][1](n), r) for n in rows]
Entries(rows, sort) ==
    [i \in 1..Len(rows) |-> [k |-> rows[i][sort], r |-> Cells(rows[i])]]

\* __main__.py:237-243: the totals, fields[c][3] being len(pt), None and sum
TotalsCells(rows) ==
    <<Len(rows), <<>>, SumSeq([i \in 1..Len(rows) |-> rows[i].pss])>>

HeaderLine == [t |-> "header", v |-> <<>>]
RuleLine == [t |-> "rule", v |-> <<>>]
RowLine(r) == [t |-> "row", v |-> r]
TotalsLine(rows) == [t |-> "totals", v |-> TotalsCells(rows)]

\* the raw output as it would be if totalsonly did not suppress the rows
RawLines_withrows(cfg, l, rows) ==
    (IF cfg.no_header THEN <<>> ELSE <<HeaderLine, RuleLine>>)
    \o [i \in 1..Len(l) |-> RowLine(l[i].r)]
    \o (IF cfg.totals
        THEN (IF cfg.totalsonly THEN <<>> ELSE <<RuleLine>>) \o <<TotalsLine(rows)>>
        ELSE <<>>)

\* __main__.py:226-247: the lines printed in raw format
RawLines(cfg, l, rows) ==
    (IF cfg.no_header THEN <<>> ELSE <<HeaderLine, RuleLine>>)
    \o (IF cfg.totalsonly THEN <<>> ELSE [i \in 1..Len(l) |-> RowLine(l[i].r)])
    \o (IF cfg.totals
        THEN (IF cfg.totalsonly THEN <<>> ELSE <<RuleLine>>) \o <<TotalsLine(rows)>>
        ELSE <<>>)

\* __main__.py:248-275: the object printed in JSON format
JsonObject(cfg, l, rows) ==
    IF ~cfg.totals THEN [processes |-> [i \in 1..Len(l) |-> l[i].r]]
    ELSE [totals |-> TotalsCells(rows)]

\* __main__.py:226-278, l the sorted entries
Printed(cfg, l, rows) ==
    IF cfg.format = "raw" THEN Ok([raw |-> RawLines(cfg, l, rows)])
    ELSE IF cfg.format = "json" THEN Ok([json |-> JsonObject(cfg, l, rows)])
    ELSE Raise("SystemExit")

\* showtable(rows, fields, columns, sort, config): what it prints, or the
\* exception that ends it
showtable(cfg, rows, sort) ==
    IF sort \notin TableFields THEN Raise("SystemExit")
    ELSE IF totalmem(cfg).exc # "" THEN totalmem(cfg)
    ELSE IF meminfo.mem.acc # "ok" THEN Raise("RuntimeError")
    ELSE IF ~MemHas({"swaptotal"}) THEN Raise("KeyError")
    ELSE Printed(cfg, SortEntries(sort, cfg.reverse, Entries(rows, sort), Len(rows)),
                 rows)

----------------------------------------------------------------------------
(* The inputs: configurations and /proc images *)

\* SmemConfig's defaults (smem2.py:18-55); pid 0, realmem 0 and sort "" stand
\* for None
DefaultConfig ==
    [processfilter |-> NoPattern, mapfilter |-> NoPattern,
     userfilter |-> NoPattern, pid |-> 0, ignorecase |-> FALSE,
     basename |-> FALSE, realmem |-> 0, kernel |-> FALSE, columns |-> <<>>,
     system |-> FALSE, sysdetail |-> FALSE, mappings |-> FALSE,
     groupcmd |-> FALSE,
     no_header |-> FALSE, totals |-> FALSE, totalsonly |-> FALSE,
     format |-> "raw", sort |-> "", reverse |-> FALSE,
     rssdetail |-> FALSE, pssdetail |-> TRUE, rollup |-> TRUE,
     swappss |-> FALSE, ownpid |-> 0]

Pid == 1..MaxPid

NL == "NL"

\* /proc/<pid>/cmdline texts: "a", "a b", "/a", and a kernel thread's
CmdLines == {<<"a", NUL>>, <<"a", NUL, "b", NUL>>, <<"/", "a", NUL>>, <<>>}

LibName == <<"/", "l">>
SysvName == <<"/", "S", "Y", "S", "V", "0">>
DevZeroName == <<"/", "d", "e", "v", "/", "z", "e", "r", "o">>
RollupName == <<"[", "r", "]">>

\* one block of smaps text: the header and its field lines
Block(start, name, rss, pss, sc, pc, pd) ==
    <<Hdr(start, name), Fld("Rss", rss), Fld("Pss", pss),
      Fld("Shared_Clean", sc), Fld("Private_Clean", pc),
      Fld("Private_Dirty", pd), Other>>

\* /proc/<pid>/smaps texts
OneLib == Block(1, LibName, 2, 1, 2, 0, 0)
TwoLibs ==
    Block(1, LibName, 3, 2, 2, 1, 0) \o Block(2, <<>>, 1, 1, 0, 0, 1)
    \o Block(3, LibName, 1, 1, 0, 1, 0)
Shared == Block(1, SysvName, 2, 1, 2, 0, 0) \o Block(2, DevZeroName, 1, 1, 0, 1, 0)

SmapsTexts == {OneLib, TwoLibs, Shared}

FieldSum(text, k) ==
    SumSeq([i \in 1..Len(text) |->
               IF text[i].t = "fld" /\ text[i].key = k THEN text[i].val ELSE 0])

\* /proc/<pid>/smaps_rollup as the kernel derives it from the mappings: one
\* "[rollup]" header and the sum of every field
RollupOf(text) ==
    <<Hdr(1, RollupName), Fld("Rss", FieldSum(text, "Rss")),
      Fld("Pss", FieldSum(text, "Pss")),
      Fld("Shared_Clean", FieldSum(text, "Shared_Clean")),
      Fld("Shared_Dirty", FieldSum(text, "Shared_Dirty")),
      Fld("Private_Clean", FieldSum(text, "Private_Clean")),
      Fld("Private_Dirty", FieldSum(text, "Private_Dirty"))>>

StatusText == <<[key |-> "Name", val |-> 0], [key |-> "VmSize", val |-> 5],
                [key |-> "RssAnon", val |-> 1], [key |-> "RssFile", val |-> 1]>>

\* a process of user uid running cmdline with the mappings text; readable
\* tells whether the tool may open its mapping files (it may not when the
\* process is another user's, or is not dumpable)
Process(cmdline, uid, readable, text) ==
    [listed |-> TRUE, cmdline |-> File(cmdline), comm |-> File(<<"c", NL>>),
     stat |-> [acc |-> "ok", data |-> uid], status |-> File(StatusText),
     smaps |-> IF readable THEN File(text) ELSE Denied,
     smaps_rollup |-> IF readable THEN File(RollupOf(text)) ELSE Denied]

\* a process that exited after /proc was listed: every file is gone
Exited ==
    [listed |-> TRUE, cmdline |-> Missing, comm |-> Missing,
     stat |-> [acc |-> "missing", data |-> -1],
     status |-> Missing, smaps |-> Missing, smaps_rollup |-> Missing]

\* the tool's own process is readable and owned by the user running the tool
RunUid == 1
OwnProcesses(cmds, texts) ==
    {Process(c, RunUid, TRUE, t) : c \in cmds \ {<<>>}, t \in texts}

\* the other processes: the user's own with any of the command lines and
\* texts, root's readable or not, and one that exited
Processes(cmds, texts) ==
    {Exited}
    \cup {Process(c, RunUid, TRUE, t) : c \in cmds, t \in texts}
    \cup {Process(c, 0, FALSE, <<>>) : c \in {<<"a", NUL>>, <<>>} \cap cmds}
    \cup {Process(<<"a", NUL>>, 0, TRUE, OneLib)}

ProcImages(cmds, texts) ==
    {f \in [Pid -> Processes(cmds, texts)] : f[OwnPid] \in OwnProcesses(cmds, texts)}

NoMeminfo ==
    [mem |-> File([k \in BasicKeys \cup DetailKeys \cup ExtendedKeys |-> 0]),
     dmi |-> 0, size |-> [ok |-> FALSE, data |-> 0, dec |-> 0],
     modules |-> File(<<>>), mounts |-> File(<<>>)]

NoArg == [opt |-> NoPattern, probes |-> <<>>, pid |-> OwnPid, rows |-> <<>>]

----------------------------------------------------------------------------
(* The operations *)

Run(name, r) ==
    /\ op' = name
    /\ ret' = r
    /\ UNCHANGED <<procfs, meminfo>>

\* filters() applied to arg.opt and the probe strings arg.probes
Filters ==
    /\ op = ""
    /\ Run("filters", Ok(filters(arg.opt, arg.probes, config.ignorecase)))
    /\ UNCHANGED <<config, arg>>

\* ProcessData.pids()
Pids ==
    /\ op = ""
    /\ Run("pids", Ok(pids(config)))
    /\ UNCHANGED <<config, arg>>

\* pidtotals(p) for an entry p of /proc
PidTotals ==
    /\ op = ""
    /\ \E p \in Pid :
        /\ arg' = [arg EXCEPT !.pid = p]
        /\ Run("pidtotals", pidtotals(config, p))
    /\ UNCHANGED config

\* get_process_data: maptotals over pids()
GetProcessData ==
    /\ op = ""
    /\ Run("maptotals", maptotals(config, pids(config)))
    /\ UNCHANGED <<config, arg>>

\* get_user_data: usertotals over pids()
GetUserData ==
    /\ op = ""
    /\ Run("usertotals", usertotals(config, pids(config)))
    /\ UNCHANGED <<config, arg>>

\* get_cmd_data: cmdtotals over pids()
GetCmdData ==
    /\ op = ""
    /\ Run("cmdtotals", cmdtotals(config, pids(config)))
    /\ UNCHANGED <<config, arg>>

\* get_map_data: mapnametotals over pids()
GetMapData ==
    /\ op = ""
    /\ Run("mapnametotals", mapnametotals(config, pids(config)))
    /\ UNCHANGED <<config, arg>>

\* get_system_data, which leaves its helpers' mapping filter in config
GetSystemData ==
    /\ op = ""
    /\ Run("system", get_system_data(config))
    /\ config' = [config EXCEPT !.mapfilter = SystemMapFilter(config)]
    /\ UNCHANGED arg

Start(cfgs, images, mems, args) ==
    /\ config \in cfgs
    /\ procfs \in images
    /\ meminfo \in mems
    /\ arg \in args
    /\ op = ""
    /\ ret = Ok(<<>>)

----------------------------------------------------------------------------
(* Spec: the process views over /proc images *)

Configured(c) == [c EXCEPT !.ownpid = OwnPid]

\* command-line concerns: process filter, case, basename; fast path or a
\* full scan with the Rss* detail of status
CmdConfigs ==
    {Configured([DefaultConfig EXCEPT !.processfilter = pf, !.ignorecase = ic,
                                      !.basename = bn, !.rollup = ro,
                                      !.rssdetail = ~ro])
        : pf \in {NoPattern, Search(<<Lit("a")>>), Search(<<Lit("A")>>)},
          ic \in BOOLEAN, bn \in BOOLEAN, ro \in BOOLEAN}

\* mapping concerns: user filter, mapping filter, --pid, every capability
MapConfigs ==
    {Configured([DefaultConfig EXCEPT !.userfilter = uf, !.mapfilter = mf,
                                      !.pid = pid, !.rollup = ro,
                                      !.rssdetail = rd, !.pssdetail = pd])
        : uf \in {NoPattern, Search(<<Lit("r")>>)},
          mf \in {NoPattern, Search(<<Lit("l")>>)},
          pid \in {0, MaxPid}, ro \in BOOLEAN, rd \in BOOLEAN, pd \in BOOLEAN}

Init ==
    \/ Start(CmdConfigs, ProcImages(CmdLines, {OneLib}), {NoMeminfo}, {NoArg})
    \/ Start(MapConfigs, ProcImages({<<"a", NUL>>}, SmapsTexts),
             {NoMeminfo}, {NoArg})

Next ==
    \/ Pids
    \/ PidTotals
    \/ GetProcessData
    \/ GetUserData
    \/ GetCmdData
    \/ GetMapData

Spec == Init /\ [][Next]_vars

----------------------------------------------------------------------------
(* SpecFilters: filters() over patterns and probe strings *)

FilterPatterns ==
    {NoPattern, Search(<<>>), Search(<<Lit("a")>>), Search(<<Lit("A")>>),
     Search(<<Lit("a"), Lit("b")>>), Search(<<Lit("a"), Star("b")>>),
     [set |-> TRUE, bol |-> TRUE, atoms |-> <<Lit("b")>>, eol |-> FALSE],
     [set |-> TRUE, bol |-> FALSE, atoms |-> <<Lit("a")>>, eol |-> TRUE],
     [set |-> TRUE, bol |-> TRUE, atoms |-> <<>>, eol |-> TRUE]}

ProbeStrings == {<<>>, <<"a">>, <<"A">>, <<"b", "a">>, <<"a", "B">>, <<"?">>}

ProbeLists == UNION {[1..n -> ProbeStrings] : n \in 0..MaxProbes}

FilterArgs == {[opt |-> o, probes |-> ps, pid |-> OwnPid, rows |-> <<>>]
                  : o \in FilterPatterns, ps \in ProbeLists}

FilterConfigs == {[DefaultConfig EXCEPT !.ignorecase = ic] : ic \in BOOLEAN}

\* every process the tool's own user's, readable
PlainImage == [p \in Pid |-> Process(<<"a", NUL>>, RunUid, TRUE, OneLib)]

InitFilters == Start(FilterConfigs, {PlainImage}, {NoMeminfo}, FilterArgs)

NextFilters == Filters

SpecFilters == InitFilters /\ [][NextFilters]_vars

\* the pattern and the string folded to lower case
LowerPattern(p) ==
    [p EXCEPT !.atoms = [i \in 1..Len(p.atoms) |->
                            [p.atoms[i] EXCEPT !.c = LowerChar(@)]]]
LowerStr(s) == [i \in 1..Len(s) |-> LowerChar(s[i])]

\* the pattern matches the probe string under the case rule
ProbeMatches(p, s, ignorecase) ==
    IF ignorecase THEN ReSearch(LowerPattern(p), LowerStr(s), FALSE)
    ELSE ReSearch(p, s, FALSE)

\* C1: filters() returns False (not excluded) whenever the pattern is None or
\* the empty string; with a pattern it returns True (excluded) exactly when the
\* pattern matches none of the probe strings, letter case being ignored
\* exactly when config.ignorecase is set.
C1_FilterPredicate ==
    op = "filters" =>
        /\ ret.exc = ""
        /\ (~arg.opt.set \/ arg.opt = Search(<<>>)) => ret.val = FALSE
        /\ ~(~arg.opt.set \/ arg.opt = Search(<<>>)) =>
              (ret.val = TRUE <=>
                  \A i \in 1..Len(arg.probes) :
                      ~ProbeMatches(arg.opt, arg.probes[i], config.ignorecase))

\* a pattern that misses the first probe and matches the second only because
\* the case is ignored
C1_Witness ==
    /\ op = "filters"
    /\ config.ignorecase
    /\ arg.opt = Search(<<Lit("A")>>)
    /\ arg.probes = <<<<"?">>, <<"b", "a">>>>
    /\ ret.val = FALSE

----------------------------------------------------------------------------
(* The claims about the process views *)

Range(s) == {s[i] : i \in 1..Len(s)}

FilterActive == ~PatternFalsy(config.processfilter)

\* C2: while a process filter is active, the tool's own pid is in the result
\* of no view: not in pids(), not a key of the by-process result, not a member
\* of any user or command group, and the by-mapping-name result is the one
\* computed without it.
C2_SelfExclusion ==
    (FilterActive /\ ret.exc = "") =>
        /\ op = "pids" => config.ownpid \notin Range(ret.val)
        /\ op = "maptotals" => config.ownpid \notin DOMAIN ret.val
        /\ op \in {"usertotals", "cmdtotals"} =>
              \A g \in DOMAIN ret.val : config.ownpid \notin Range(ret.val[g].pids)
        /\ op = "mapnametotals" =>
              ret = mapnametotals(config,
                        SelectSeq(SetToSeq(listdir),
                                  LAMBDA e : e \in Range(pids(config))
                                             /\ e # config.ownpid))

\* the filter matches the tool's own process, which is readable, and the
\* view still reports another process
C2_Witness ==
    /\ op = "maptotals"
    /\ FilterActive
    /\ ~Skipped(config, config.ownpid)
    /\ pidtotals(config, config.ownpid).exc = ""
    /\ DOMAIN pidtotals(config, config.ownpid).val # {}
    /\ ret.exc = ""
    /\ DOMAIN ret.val # {}

RECURSIVE SumFn(_, _)
\* the sum of f over the finite set D
SumFn(f, D) ==
    IF D = {} THEN 0
    ELSE LET x == CHOOSE y \in D : TRUE IN f[x] + SumFn(f, D \ {x})

\* the pids a view works on that pass the process and user filters
Unfiltered == {p \in Range(pids(config)) : ~Skipped(config, p)}

\* neither mapping file of the process can be read
MapdataUnreadable(p) ==
    read(p, "smaps").exc # "" /\ read(p, "smaps_rollup").exc # ""

\* the mapping records of a process, none when pidmaps raises
Records(p) == pidmaps(config, p, FALSE).val

\* one field of pidtotals(p), 0 when the result is empty
PidTotal(p, k) == Get(pidtotals(config, p).val, k)

\* C3: pidtotals returns the empty result and does not raise whenever the
\* mapping data of the process cannot be read (missing or permission denied),
\* whatever rollup and rssdetail are and whether or not status is readable.
C3_UnreadableGivesEmpty ==
    (op = "pidtotals" /\ MapdataUnreadable(arg.pid)) =>
        (ret.exc = "" /\ DOMAIN ret.val = {})

\* C4: the keys of the by-process result are exactly the pids that pass the
\* filters and have a non-empty record set; an unreadable process is absent
\* from the result.
C4_ByProcessKeys ==
    op = "maptotals" =>
        /\ ret.exc = ""
        /\ DOMAIN ret.val =
              {p \in Unfiltered :
                  pidmaps(config, p, FALSE).exc = "" /\ DOMAIN Records(p) # {}}
        /\ \A p \in Pid : MapdataUnreadable(p) => p \notin DOMAIN ret.val

SummedKeys == {"pss", "rss", "uss", "swap", "size"}

\* C5: usertotals puts every unfiltered pid in exactly one user group, once,
\* and for each of pss, rss, uss, swap and size the sum of the groups' totals
\* is the sum of pidtotals over the unfiltered pids; usertotals raises only
\* when pidtotals raises for one of them.
C5_UserAdditivity ==
    op = "usertotals" =>
        /\ ret.exc # "" => \E p \in Unfiltered : pidtotals(config, p).exc # ""
        /\ ret.exc = "" =>
              /\ \A k \in SummedKeys :
                    SumFn([u \in DOMAIN ret.val |-> ret.val[u].totals[k]],
                          DOMAIN ret.val)
                    = SumFn([p \in Unfiltered |-> PidTotal(p, k)], Unfiltered)
              /\ \A p \in Unfiltered :
                    SumFn([u \in DOMAIN ret.val |->
                             Cardinality({i \in DOMAIN ret.val[u].pids :
                                             ret.val[u].pids[i] = p})],
                          DOMAIN ret.val) = 1
              /\ \A u \in DOMAIN ret.val : Range(ret.val[u].pids) \subseteq Unfiltered

\* two user groups, each with memory of its own
C5_Witness ==
    /\ op = "usertotals"
    /\ ret.exc = ""
    /\ Cardinality(DOMAIN ret.val) >= 2
    /\ \A u \in DOMAIN ret.val : ret.val[u].totals["pss"] > 0

C7_EmptyCommandsDropped ==
    (op = "cmdtotals" /\ ret.exc = "") =>
        \A c \in DOMAIN ret.val :
            \E p \in Range(ret.val[c].pids) : DOMAIN pidtotals(config, p).val # {}

\* the records of process p that bear the name
Named(p, name) == {m \in DOMAIN Records(p) : Records(p)[m].name = name}

\* C8: in the by-mapping-name result every name borne by a record of an
\* unfiltered process has a group; its count is the number of such records,
\* its pids the number of processes with at least one, 1 <= pids <= count,
\* and every numeric field is the sum over those records; mapnametotals
\* raises only when pidmaps does.
C8_MapNameCounts ==
    op = "mapnametotals" =>
        /\ ret.exc # "" => \E p \in Unfiltered : pidmaps(config, p, FALSE).exc # ""
        /\ ret.exc = "" =>
              /\ DOMAIN ret.val
                    = UNION {{Records(p)[m].name : m \in DOMAIN Records(p)}
                                : p \in Unfiltered}
              /\ \A name \in DOMAIN ret.val :
                    LET t == ret.val[name]
                    IN /\ t["count"] = SumFn([p \in Unfiltered |->
                                                Cardinality(Named(p, name))],
                                             Unfiltered)
                       /\ t["pids"] = Cardinality({p \in Unfiltered :
                                                      Named(p, name) # {}})
                       /\ 1 <= t["pids"] /\ t["pids"] <= t["count"]
                       /\ \A k \in DOMAIN t \ {"count", "pids"} :
                             t[k] = SumFn([p \in Unfiltered |->
                                             SumFn([m \in Named(p, name) |->
                                                      Get(Records(p)[m].f, k)],
                                                   Named(p, name))],
                                          Unfiltered)

\* a name borne by more records than processes
C8_Witness ==
    /\ op = "mapnametotals"
    /\ ret.exc = ""
    /\ LibName \in DOMAIN ret.val
    /\ ret.val[LibName]["pids"] = 2
    /\ ret.val[LibName]["count"] = 3
    /\ ret.val[LibName]["pss"] > 0

----------------------------------------------------------------------------
(* SpecSys: the system breakdown over /proc/meminfo contents *)

\* /proc/meminfo with the given amounts, every other key 0
Meminfo(mt, f, mapped, cached, shmem, slab) ==
    [k \in BasicKeys \cup DetailKeys \cup ExtendedKeys |->
        CASE k = "memtotal" -> mt
          [] k = "memfree" -> f
          [] k = "mapped" -> mapped
          [] k = "cached" -> cached
          [] k = "shmem" -> shmem
          [] k = "slab" -> slab
          [] OTHER -> 0]

\* the machine: meminfo, one module of 2 kB or none, one ramfs mount of
\* 1 kB or none
Machines ==
    {[mem |-> File(Meminfo(mt, f, mapped, cached, shmem, slab)),
      dmi |-> 0, size |-> [ok |-> FALSE, data |-> 0, dec |-> 0],
      modules |-> File(md), mounts |-> File(mo)]
        : mt \in 0..MaxKB, cached \in 0..MaxKB,
          f \in {0, MaxKB}, mapped \in {0, MaxKB}, shmem \in {0, MaxKB},
          slab \in {0, MaxKB},
          md \in {<<>>, <<2048>>},
          mo \in {<<>>, <<[ramfs |-> TRUE, du |-> 1]>>} }

\* every process maps a SYSV segment and /dev/zero
SharedImage == [p \in Pid |-> Process(<<"a", NUL>>, RunUid, TRUE, Shared)]

SysConfigs ==
    {Configured([DefaultConfig EXCEPT !.system = TRUE, !.sysdetail = sd,
                                      !.columns = co, !.rollup = ro,
                                      !.realmem = rm])
        : sd \in BOOLEAN, co \in {<<>>, ColAll, ColDetails}, ro \in BOOLEAN,
          rm \in {0, MaxKB + 1}}

\* the keys of a snapshot that holds the userspace and free amounts only
FourKeys == {"memtotal", "memfree", "anonpages", "mapped"}

\* machines whose /proc/meminfo holds the four keys and nothing else
FourKeyMachines ==
    {[mem |-> File([k \in FourKeys |->
                      CASE k = "memtotal" -> mt
                        [] k = "memfree" -> f
                        [] k = "anonpages" -> an
                        [] OTHER -> mp]),
      dmi |-> 0, size |-> [ok |-> FALSE, data |-> 0, dec |-> 0],
      modules |-> File(<<>>), mounts |-> File(<<>>)]
        : mt \in {MaxKB, 2 * MaxKB}, f \in 0..MaxKB, an \in 0..MaxKB,
          mp \in 0..MaxKB}

\* machines whose optional sources fail: /proc/modules and /proc/mounts
\* missing, unreadable or with an entry that fails (a token int() rejects, a
\* failing du), and "size" failing on the kernel image
DegradedMachines ==
    {[mem |-> File(Meminfo(MaxKB, 0, 0, 0, 0, 0)), dmi |-> 0, size |-> sz,
      modules |-> md, mounts |-> mo]
        : sz \in {[ok |-> FALSE, data |-> 0, dec |-> 0],
                  [ok |-> TRUE, data |-> 1, dec |-> 2048]},
          md \in {File(<<2048>>), Missing, Denied, File(<<-1>>),
                  File(<<2048, -1>>)},
          mo \in {File(<<[ramfs |-> TRUE, du |-> 1]>>), Missing, Denied,
                  File(<<[ramfs |-> TRUE, du |-> -1]>>)} }

\* the breakdown with and without a kernel image to measure
KernelConfigs ==
    {Configured([DefaultConfig EXCEPT !.system = TRUE, !.sysdetail = sd,
                                      !.kernel = k])
        : sd \in BOOLEAN, k \in BOOLEAN}

InitSys ==
    \/ Start(SysConfigs, {PlainImage, SharedImage}, Machines, {NoArg})
    \/ Start(SysConfigs, {PlainImage}, FourKeyMachines, {NoArg})
    \/ Start(KernelConfigs, {PlainImage}, DegradedMachines, {NoArg})

NextSys == GetSystemData

SpecSys == InitSys /\ [][NextSys]_vars

\* the used value of the rows of that name
UsedOf(rows, name) == {rows[i][2] : i \in {j \in DOMAIN rows : rows[j][1] = name}}

\* C9: in detailed system mode get_system_data returns an "unknown" row, and
\* its used value is never negative, whatever the memory-info values, module
\* size, ramfs usage and helper totals.
C9_UnknownNeverNegative ==
    (op = "system" /\ config.sysdetail /\ ret.exc = "") =>
        /\ UsedOf(ret.val, "unknown") # {}
        /\ \A v \in UsedOf(ret.val, "unknown") : v >= 0

\* the remainder is memtotal - memfree = -MaxKB, and the row holds 0
C9_Witness ==
    /\ op = "system" /\ config.sysdetail /\ ret.exc = ""
    /\ meminfo.mem.data = Meminfo(0, MaxKB, 0, 0, 0, 0)
    /\ meminfo.modules.data = <<>> /\ meminfo.mounts.data = <<>>
    /\ procfs = PlainImage
    /\ UsedOf(ret.val, "unknown") = {0}

\* C10: no row returned by get_system_data has a negative used value,
\* firmware/hardware, file cache, non-process shared memory and kernel
\* dynamic memory included.
C10_NoNegativeRow ==
    (op = "system" /\ ret.exc = "") =>
        \A i \in DOMAIN ret.val : ret.val[i][2] >= 0

\* C11: in basic system mode, on a memory-info snapshot that supplies
\* memtotal, memfree, anonpages and mapped, with kernel image size 0,
\* get_system_data returns rows with "userspace memory".used = anonpages +
\* mapped and "free memory".used = memfree.
C11_BasicFixtureRows ==
    (/\ op = "system" /\ ~config.sysdetail
     /\ meminfo.mem.acc = "ok" /\ FourKeys \subseteq DOMAIN meminfo.mem.data
     /\ kernelsize(config) = 0) =>
        /\ ret.exc = ""
        /\ UsedOf(ret.val, "userspace memory")
              = {meminfo.mem.data["anonpages"] + meminfo.mem.data["mapped"]}
        /\ UsedOf(ret.val, "free memory") = {meminfo.mem.data["memfree"]}

\* the names of the rows, in order
RowNames(rows) == [i \in DOMAIN rows |-> rows[i][1]]

\* C12: get_system_data returns exactly 5 rows in basic mode; in detailed
\* mode it returns the 13 rows of the breakdown in their fixed order, followed
\* by the extended sub-list (a separator, /dev/zero mapped, shared by
\* processes, unevictable, dirty, swapped, available) if and only if the
\* column selection requests "all" or "details".
C12_RowCounts ==
    (op = "system" /\ ret.exc = "") =>
        /\ ~config.sysdetail => Len(ret.val) = 5
        /\ config.sysdetail =>
              /\ SubSeq(RowNames(ret.val), 1, 13)
                    = <<"firmware/hardware", "kernel image", "kernel modules",
                        "page tables", "kernel stack", "slab (all/SReclaimable)",
                        "buffers", "cached (w/o mapped,tmpfs,ramfs)",
                        "shared (non process tmpfs)", "ramfs", "unknown",
                        "processes (all/mapped files)", "free memory">>
              /\ config.columns \notin {ColAll, ColDetails} => Len(ret.val) = 13
              /\ config.columns \in {ColAll, ColDetails} =>
                    SubSeq(RowNames(ret.val), 14, Len(ret.val))
                        = <<"-------------------------------", "/dev/zero mapped",
                            "shared by processes", "unevictable",
                            "dirty (unwritten to file)", "swapped",
                            "available (estimated)">>

\* detailed mode with the "details" columns: 13 rows and the extended list
C12_Witness ==
    /\ op = "system" /\ ret.exc = "" /\ config.sysdetail
    /\ config.columns = ColDetails
    /\ Len(ret.val) = 20

----------------------------------------------------------------------------
(* SpecSetup: capability detection on the tool's own process *)

\* setdatasources, which rewrites config in place
SetDataSources ==
    /\ op = ""
    /\ op' = "setdatasources"
    /\ ret' = [exc |-> setdatasources(config).exc, val |-> <<>>]
    /\ config' = setdatasources(config).val
    /\ UNCHANGED <<procfs, meminfo, arg>>

\* what parse_arguments leaves in config: the caller's requests
SetupConfigs ==
    {[DefaultConfig EXCEPT !.mapfilter = mf, !.mappings = mp,
                           !.groupcmd = gc, !.columns = co]
        : mf \in {NoPattern, Search(<<>>), Search(<<Lit("l")>>)},
          mp \in BOOLEAN, gc \in BOOLEAN,
          co \in {<<>>, ColAll, ColMaps, <<"+">> \o ColMaps, <<"p", "s", "s">>}}

\* smaps of a kernel that reports SwapPss and the Pss_Anon/File/Shmem split
NewKernelText ==
    <<Hdr(1, LibName), Fld("Rss", 2), Fld("Pss", 1), Fld("Pss_Anon", 1),
      Fld("Pss_File", 0), Fld("Pss_Shmem", 0), Fld("Shared_Clean", 2),
      Fld("Private_Clean", 0), Fld("Private_Dirty", 0), Fld("SwapPss", 0), Other>>

\* the smaps_rollup of that kernel
NewKernelRollup ==
    <<Hdr(1, RollupName), Fld("Rss", 2), Fld("Pss", 1), Fld("Pss_Anon", 1),
      Fld("Pss_File", 0), Fld("Pss_Shmem", 0), Fld("Shared_Clean", 2),
      Fld("Private_Clean", 0), Fld("Private_Dirty", 0), Fld("SwapPss", 0)>>

\* the status of a kernel that does not report RssAnon
OldStatusText == <<[key |-> "Name", val |-> 0], [key |-> "VmSize", val |-> 5]>>

\* the mapping files of the tool's own process, <<smaps_rollup, smaps>>
SetupMappings ==
    {<<File(NewKernelRollup), File(NewKernelText)>>,
     <<File(RollupOf(OneLib)), File(OneLib)>>,
     <<Missing, File(NewKernelText)>>,
     <<Missing, File(OneLib)>>,
     <<Missing, File(<<>>)>>,
     <<Missing, Missing>>,
     <<Denied, Denied>>}

SetupImages ==
    {[p \in Pid |->
        IF p = OwnPid
        THEN [Process(<<"a", NUL>>, RunUid, TRUE, OneLib)
                 EXCEPT !.status = st, !.smaps_rollup = mf[1], !.smaps = mf[2]]
        ELSE Process(<<"a", NUL>>, RunUid, TRUE, OneLib)]
        : st \in {File(StatusText), File(OldStatusText), Missing, Denied},
          mf \in SetupMappings}

InitSetup == Start(SetupConfigs, SetupImages, {NoMeminfo}, {NoArg})

NextSetup == SetDataSources

SpecSetup == InitSetup /\ [][NextSetup]_vars

\* the caller asked for a mapping-name filter
MapFilterRequested == config.mapfilter.set /\ config.mapfilter.atoms # <<>>

\* C13 as stated: after setdatasources the fast path is disabled whenever the
\* caller requested the per-mapping view, a mapping-name filter, or a column
\* selection holding "maps" or "all"; otherwise it is enabled.
C13_FastPathAsStated ==
    (op = "setdatasources" /\ ret.exc = "") =>
        (config.rollup <=>
            ~(\/ config.mappings
              \/ MapFilterRequested
              \/ Contains(config.columns, ColMaps)
              \/ Contains(config.columns, ColAll)))

\* C13, amended: after setdatasources the fast path is disabled whenever the
\* caller requested the per-mapping view, a mapping-name filter, a column
\* selection holding "maps", or one holding "all" without the by-command
\* grouping; otherwise, "all" under --groupcmd included, it is enabled.
C13_FastPath ==
    (op = "setdatasources" /\ ret.exc = "") =>
        (config.rollup <=>
            ~(\/ config.mappings
              \/ MapFilterRequested
              \/ Contains(config.columns, ColMaps)
              \/ (Contains(config.columns, ColAll) /\ ~config.groupcmd)))

\* "all" columns in the by-command view: the fast path stays enabled
C13_Witness ==
    /\ op = "setdatasources" /\ ret.exc = ""
    /\ config.columns = ColAll /\ config.groupcmd
    /\ ~config.mappings /\ ~MapFilterRequested
    /\ config.rollup

\* the text the probe reads: smaps_rollup, or smaps when that is unreadable
ProbedText == mapdata([config EXCEPT !.rollup = TRUE], OwnPid)

\* the field names of the first mapping entry of a text
FirstEntryKeys(text) ==
    LET hdrs == {i \in DOMAIN text : text[i].t = "hdr"}
        first == CHOOSE i \in hdrs : \A j \in hdrs : i <= j
        rest == {i \in hdrs : i > first}
        last == IF rest = {} THEN Len(text)
                ELSE (CHOOSE i \in rest : \A j \in rest : i <= j) - 1
    IN IF hdrs = {} THEN {}
       ELSE {text[i].key : i \in {j \in (first + 1)..last : text[j].t = "fld"}}

\* C14: after setdatasources, swappss is true iff the probed mapping entry
\* of the invoking process holds a SwapPss field, and pssdetail is true iff
\* it holds the Pss_Anon, Pss_File and Pss_Shmem fields.
C14_CapabilitiesReflectText ==
    (op = "setdatasources" /\ ret.exc = "") =>
        /\ config.swappss <=> "SwapPss" \in FirstEntryKeys(ProbedText)
        /\ config.pssdetail <=>
              {"Pss_Anon", "Pss_File", "Pss_Shmem"} \subseteq FirstEntryKeys(ProbedText)

\* the status of the invoking process cannot be read
StatusUnreadable == read(OwnPid, "status").exc # ""

\* the mapping text is missing, unreadable or holds no mapping entry
NoMappingEntry == \A i \in DOMAIN ProbedText : ProbedText[i].t # "hdr"

\* C15: when the status or the mapping text of the invoking process is
\* missing, unreadable or holds no mapping entry, setdatasources still
\* returns, with the affected capabilities set to unsupported.
C15_DetectionNeverAborts ==
    (op = "setdatasources" /\ (StatusUnreadable \/ NoMappingEntry)) =>
        /\ ret.exc = ""
        /\ StatusUnreadable => ~config.rssdetail
        /\ NoMappingEntry => (~config.swappss /\ ~config.pssdetail)

----------------------------------------------------------------------------
(* SpecParse: pidmaps and pidtotals of one process, over mapping texts of
   every page-count combination *)

MaxPages == 1        \* the page counts of a mapping block are 0..MaxPages

\* pidmaps(p) for an entry p of /proc
PidMaps ==
    /\ op = ""
    /\ \E p \in Pid :
        /\ arg' = [arg EXCEPT !.pid = p]
        /\ Run("pidmaps", pidmaps(config, p, FALSE))
    /\ UNCHANGED config

\* pidmaps(p, nomaps=True): the probe of the capability detection
ProbeMaps ==
    /\ op = ""
    /\ \E p \in Pid :
        /\ arg' = [arg EXCEPT !.pid = p]
        /\ Run("probe", pidmaps(config, p, TRUE))
    /\ UNCHANGED config

\* one block as the kernel writes it: Rss counts every resident page, Pss the
\* private pages and the process's share of the shared ones (sharers
\* processes map them); a kernel without Rss/Pss accounting writes the page
\* counts only
PageBlock(start, name, native, sc, sd, pc, pd, sharers) ==
    <<Hdr(start, name)>>
    \o (IF native
        THEN <<Fld("Rss", sc + sd + pc + pd),
               Fld("Pss", pc + pd + ((sc + sd) \div sharers))>>
        ELSE <<>>)
    \o <<Fld("Shared_Clean", sc), Fld("Shared_Dirty", sd),
         Fld("Private_Clean", pc), Fld("Private_Dirty", pd), Other>>

\* texts of one block, or of that block and a second, anonymous one
PageTexts(native) ==
    {PageBlock(1, LibName, native, sc, sd, pc, pd, sh) \o more :
        sc \in 0..MaxPages, sd \in 0..MaxPages, pc \in 0..MaxPages,
        pd \in 0..MaxPages, sh \in (IF native THEN {1, 2} ELSE {1}),
        more \in {<<>>, PageBlock(2, <<>>, native, 1, 0, 1, 0, 2)}}

NoVmSizeText == <<[key |-> "Name", val |-> 0], [key |-> "RssAnon", val |-> 1]>>

\* a readable process: its smaps text, the rollup summary (the field-wise sum
\* of the text, or absent as on kernels before 4.14) and its status
ParsedProcess(text, rollup, status) ==
    [Process(<<"a", NUL>>, RunUid, TRUE, text)
        EXCEPT !.smaps_rollup = rollup, !.status = status]

StatusFiles == {File(StatusText), File(NoVmSizeText), Missing}

\* a text with a line of no recognised shape: before the first header (there
\* also a field line), or between two blocks
StrayTexts ==
    {<<l>> \o PageBlock(1, LibName, TRUE, 1, 0, 1, 0, 1) :
        l \in {Other, Empty, Dash, Fld("Rss", 1)}}
    \cup {PageBlock(1, LibName, TRUE, 1, 0, 1, 0, 1) \o <<l>>
            \o PageBlock(2, <<>>, TRUE, 0, 0, 0, 1, 1) : l \in {Empty, Dash}}

ParseProcesses ==
    {ParsedProcess(t, File(RollupOf(t)), s) : t \in PageTexts(TRUE), s \in StatusFiles}
    \cup {ParsedProcess(t, Missing, s) : t \in StrayTexts, s \in StatusFiles}
    \cup {ParsedProcess(t, Missing, s) :
            t \in PageTexts(TRUE) \cup PageTexts(FALSE), s \in StatusFiles}

ParseImages == {[p \in Pid |-> P] : P \in ParseProcesses}

ParseConfigs ==
    {Configured([DefaultConfig EXCEPT !.rollup = ro, !.pssdetail = pd,
                                      !.mapfilter = mf])
        : ro \in BOOLEAN, pd \in BOOLEAN,
          mf \in {NoPattern, Search(<<Lit("l")>>)}}

InitParse == Start(ParseConfigs, ParseImages, {NoMeminfo}, {NoArg})

NextParse ==
    \/ PidMaps
    \/ PidTotals
    \/ ProbeMaps

SpecParse == InitParse /\ [][NextParse]_vars

\* the texts of the process the operation was applied to
SmapsOf(p) == procfs[p].smaps.data
RollupReadable(p) == procfs[p].smaps_rollup.acc = "ok"
Blocks(text) == Cardinality({i \in DOMAIN text : text[i].t = "hdr"})

\* C16: in rollup mode pidmaps returns exactly one record for every readable
\* process, whether or not its rollup summary can be read.
C16_OneRecordInRollupMode ==
    (op = "pidmaps" /\ config.rollup /\ PatternFalsy(config.mapfilter))
        => (ret.exc = "" /\ Cardinality(DOMAIN ret.val) = 1)

\* the VmSize lines of the status text of process p (none when it is unreadable)
VmSizeLines(p) ==
    IF procfs[p].status.acc # "ok" THEN {}
    ELSE {i \in DOMAIN procfs[p].status.data :
             procfs[p].status.data[i].key = "VmSize"}

ReportedVmSize(p) ==
    procfs[p].status.data[CHOOSE i \in VmSizeLines(p) : TRUE].val

\* C17: when status reports VmSize, the one record of rollup mode carries all
\* of it, and in full-scan mode every record carries VmSize divided by the
\* number of mappings discovered.
C17_VmSizeAssigned ==
    (op = "pidmaps" /\ ret.exc = "" /\ VmSizeLines(arg.pid) # {})
        => IF config.rollup
           THEN Total(ret.val, "size") = ReportedVmSize(arg.pid)
           ELSE \A m \in DOMAIN ret.val :
                   ret.val[m].f["size"]
                       = ReportedVmSize(arg.pid) \div Blocks(SmapsOf(arg.pid))

\* the field lines of the block of text that starts at address start
BlockLines(text, start) ==
    {i \in DOMAIN text :
        /\ text[i].t = "fld"
        /\ \E h \in 1..(i - 1) :
              /\ text[h].t = "hdr" /\ text[h].start = start
              /\ \A j \in (h + 1)..(i - 1) : text[j].t # "hdr"}

HasField(text, start, key) ==
    \E i \in BlockLines(text, start) : text[i].key = key

\* the value of a field of the block, 0 when the block has no such line
FieldOf(text, start, key) ==
    IF HasField(text, start, key)
    THEN text[CHOOSE i \in BlockLines(text, start) : text[i].key = key].val
    ELSE 0

\* C18: in a full scan a record of a block with native Pss and Rss lines keeps
\* those values, and a record of a block without them gets the derived ones
\* (uss = private, pss = uss + shared_clean/2, rss = shared_clean +
\* shared_dirty); pss is held in halves of a kB.
C18_NativeTakesPrecedence ==
    (op = "pidmaps" /\ ret.exc = "" /\ ~config.rollup)
        => \A m \in DOMAIN ret.val :
              LET text == SmapsOf(arg.pid)
                  uss == FieldOf(text, m, "Private_Clean")
                         + FieldOf(text, m, "Private_Dirty")
              IN IF HasField(text, m, "Pss") /\ HasField(text, m, "Rss")
                 THEN /\ ret.val[m].f["pss"] = 2 * FieldOf(text, m, "Pss")
                      /\ ret.val[m].f["rss"] = FieldOf(text, m, "Rss")
                 ELSE /\ ret.val[m].f["uss"] = uss
                      /\ ret.val[m].f["pss"]
                            = 2 * uss + FieldOf(text, m, "Shared_Clean")
                      /\ ret.val[m].f["rss"]
                            = FieldOf(text, m, "Shared_Clean")
                              + FieldOf(text, m, "Shared_Dirty")

\* the text carries Rss lines, each the sum of the block's shared and private
\* page counts
ConsistentText(text) ==
    \A i \in DOMAIN text :
        text[i].t = "hdr" =>
            /\ HasField(text, text[i].start, "Rss")
            /\ FieldOf(text, text[i].start, "Rss")
                  = FieldOf(text, text[i].start, "Shared_Clean")
                    + FieldOf(text, text[i].start, "Shared_Dirty")
                    + FieldOf(text, text[i].start, "Private_Clean")
                    + FieldOf(text, text[i].start, "Private_Dirty")

\* C19: on every parsing path the totals of a process with consistent,
\* non-negative page counts have pss >= 0 and rss >= uss.
C19_RssCoversUss ==
    (op = "pidtotals" /\ ret.exc = "" /\ DOMAIN ret.val # {}
        /\ ConsistentText(SmapsOf(arg.pid)))
        => (ret.val["pss"] >= 0 /\ ret.val["rss"] >= ret.val["uss"])

\* the rollup summary of p is readable and is the field-wise sum of its blocks
RollupIsSum(p) ==
    /\ RollupReadable(p)
    /\ procfs[p].smaps_rollup.data = RollupOf(SmapsOf(p))

\* totals a and b agree on rss and uss, and on pss (halves of a kB) up to slack
Agree(a, b, slack) ==
    /\ a["rss"] = b["rss"]
    /\ a["uss"] = b["uss"]
    /\ a["pss"] - b["pss"] <= slack
    /\ b["pss"] - a["pss"] <= slack

\* C20: for a process whose rollup summary is the sum of its blocks, the
\* totals of the fast path and of the full scan agree on rss and uss, and on
\* pss up to half of the clean shared pages.
C20_FastAndFullAgree ==
    (op = "pidtotals" /\ ret.exc = "" /\ DOMAIN ret.val # {}
        /\ RollupIsSum(arg.pid) /\ PatternFalsy(config.mapfilter))
        => /\ pidtotals([config EXCEPT !.rollup = ~@], arg.pid).exc = ""
           /\ DOMAIN pidtotals([config EXCEPT !.rollup = ~@], arg.pid).val # {}
           /\ Agree(ret.val,
                    pidtotals([config EXCEPT !.rollup = ~@], arg.pid).val,
                    FieldSum(SmapsOf(arg.pid), "Shared_Clean"))

\* the configuration without its mapping-name filter
Unmapfiltered == [config EXCEPT !.mapfilter = NoPattern]

\* the records among maps whose display name the mapping filter matches
Matching(maps) ==
    [m \in {x \in DOMAIN maps :
               ProbeMatches(config.mapfilter, maps[x].name, config.ignorecase)}
        |-> maps[m]]

\* C21: with a mapping-name filter set, pidmaps returns exactly the records
\* (as parsed, derived and sized without the filter) whose display name
\* matches it; the probe (nomaps) returns its record unfiltered.
C21_MapFilterKeepsMatches ==
    ~PatternFalsy(config.mapfilter) =>
        /\ (op = "pidmaps" /\ ret.exc = "") =>
              ret.val = Matching(pidmaps(Unmapfiltered, arg.pid, FALSE).val)
        /\ op = "probe" => ret = pidmaps(Unmapfiltered, arg.pid, TRUE)

\* a full scan of two mappings of which the filter keeps the first, with the
\* share of VmSize it got before the filter was applied
C21_Witness ==
    /\ op = "pidmaps"
    /\ ~PatternFalsy(config.mapfilter)
    /\ ~config.rollup /\ config.pssdetail
    /\ Blocks(SmapsOf(arg.pid)) = 2
    /\ VmSizeLines(arg.pid) # {}
    /\ DOMAIN ret.val = {1}
    /\ ret.val[1].name = LibName
    /\ ret.val[1].f["size"] = ReportedVmSize(arg.pid) \div 2

\* line i of text has neither the header nor the field shape, or is a field
\* line that no header precedes
Stray(text, i) ==
    \/ text[i].t \notin {"hdr", "fld"}
    \/ text[i].t = "fld" /\ \A h \in 1..(i - 1) : text[h].t # "hdr"

RECURSIVE WithoutStray(_, _)
\* the lines 1..n of text that are not stray
WithoutStray(text, n) ==
    IF n = 0 THEN <<>>
    ELSE WithoutStray(text, n - 1)
         \o (IF Stray(text, n) THEN <<>> ELSE <<text[n]>>)

\* C22: a line of neither shape (an empty line, a field line before any
\* header, a token with "-" that is no address range) is skipped: pidmaps
\* raises nothing and returns what it returns for the text without the line.
C22_StrayLinesSkipped ==
    op = "pidmaps" =>
        ret = RecordsFrom(config,
                          WithoutStray(mapdata(config, arg.pid),
                                       Len(mapdata(config, arg.pid))),
                          StatusLines(config, arg.pid), FALSE)

\* the optional sources that fail on this machine
ModulesFail ==
    \/ meminfo.modules.acc # "ok"
    \/ \E i \in DOMAIN meminfo.modules.data : meminfo.modules.data[i] < 0
MountsFail == meminfo.mounts.acc # "ok"
DuFails ==
    /\ meminfo.mounts.acc = "ok"
    /\ \A i \in DOMAIN meminfo.mounts.data : meminfo.mounts.data[i].du < 0
SizeFails == config.kernel /\ ~meminfo.size.ok

\* C23: with /proc/meminfo complete, get_system_data returns its rows
\* whatever happens to the optional sources, and the measurement of a failing
\* source (kernel modules, ramfs, kernel image) is 0.
C23_OptionalSourcesDegrade ==
    (op = "system" /\ meminfo.mem.acc = "ok"
        /\ MemHas(BasicKeys \cup DetailKeys \cup ExtendedKeys))
        => /\ ret.exc = ""
           /\ SizeFails => UsedOf(ret.val, "kernel image") = {0}
           /\ (config.sysdetail /\ ModulesFail)
                 => UsedOf(ret.val, "kernel modules") = {0}
           /\ (config.sysdetail /\ (MountsFail \/ DuFails))
                 => UsedOf(ret.val, "ramfs") = {0}

----------------------------------------------------------------------------
(* The claims about pids() and --pid, checked under Spec *)

\* entry e is a kernel thread: its command line reads as the empty string
EmptyCmdline(e) ==
    /\ procfs[e].cmdline.acc = "ok"
    /\ DropLast(procfs[e].cmdline.data) = <<>>

\* the listed entries that are no kernel threads, only config.pid when set
Candidates ==
    {e \in listdir : ~EmptyCmdline(e) /\ (config.pid = 0 \/ e = config.pid)}

\* C24 as stated: pids() is exactly the entries that are no kernel threads,
\* restricted to the configured pid; with --pid p the by-process view has at
\* most the entry p.
C24_PidsAsStated ==
    /\ op = "pids" => Range(ret.val) = Candidates
    /\ (op = "maptotals" /\ ret.exc = "" /\ config.pid # 0)
          => DOMAIN ret.val \subseteq {config.pid}

\* C24: pids() is exactly the entries that are no kernel threads, restricted
\* to the configured pid, and without the tool's own pid while a process
\* filter is active; with --pid p the by-process view has at most the entry p.
C24_Pids ==
    /\ op = "pids" =>
          /\ Range(ret.val)
                = {e \in Candidates : ~(FilterActive /\ e = config.ownpid)}
          /\ Len(ret.val) = Cardinality(Range(ret.val))
    /\ (op = "maptotals" /\ ret.exc = "" /\ config.pid # 0)
          => DOMAIN ret.val \subseteq {config.pid}

\* --pid names one of several processes that are no kernel threads, and the
\* by-process view holds that entry alone
C24_Witness ==
    /\ op = "maptotals"
    /\ ret.exc = ""
    /\ config.pid = MaxPid
    /\ DOMAIN ret.val = {MaxPid}
    /\ \A e \in listdir : ~EmptyCmdline(e)

----------------------------------------------------------------------------
(* SpecTable: showtable over process rows *)

\* showpids' call of showtable (__main__.py:412-413) on the rows arg.rows
ShowTable ==
    /\ op = ""
    /\ Run("showtable",
           showtable(config, arg.rows, IF config.sort = "" THEN "pss" ELSE config.sort))
    /\ UNCHANGED <<config, arg>>

TableCommands == {<<"a">>, <<"B">>}

\* the rows of up to MaxPid processes, in any order
TableRows ==
    UNION {{r \in [1..n -> [pid : Pid, command : TableCommands, pss : 1..2]] :
               \A i, j \in 1..n : i # j => r[i].pid # r[j].pid}
           : n \in 0..MaxPid}

\* parse_arguments (__main__.py:908-923): totals is set by -t and by -T
TableConfigs ==
    {Configured([DefaultConfig EXCEPT !.no_header = nh, !.totals = t \/ to,
                                      !.totalsonly = to, !.format = fo,
                                      !.sort = so, !.reverse = re])
        : nh \in BOOLEAN, t \in BOOLEAN, to \in BOOLEAN,
          fo \in {"raw", "json", "xml"},
          so \in {"", "pid", "command", "size"}, re \in BOOLEAN}

InitTable ==
    Start(TableConfigs, {PlainImage}, {NoMeminfo},
          {[NoArg EXCEPT !.rows = r] : r \in TableRows})

NextTable == ShowTable

SpecTable == InitTable /\ [][NextTable]_vars

\* the sort field showtable was called with
SortField == IF config.sort = "" THEN "pss" ELSE config.sort

\* the per-row entries of the output, in the order printed
EmittedRows ==
    IF "raw" \in DOMAIN ret.val
    THEN LET rows == SelectSeq(ret.val.raw, LAMBDA l : l.t = "row")
         IN [i \in 1..Len(rows) |-> rows[i].v]
    ELSE IF "processes" \in DOMAIN ret.val.json THEN ret.val.json.processes
    ELSE <<>>

\* the value of the sort field in a printed row
SortValue(cells) ==
    CASE SortField = "pid" -> cells[1]
      [] SortField = "command" -> cells[2]
      [] OTHER -> cells[3]

\* the same, as the sort key: the command in lower case
SortKey(cells) ==
    IF SortField = "command"
    THEN [i \in 1..Len(cells[2]) |-> LowerChar(cells[2][i])]
    ELSE SortValue(cells)

\* every input row is printed exactly once
EachRowOnce ==
    /\ Len(EmittedRows) = Len(arg.rows)
    /\ {EmittedRows[i] : i \in 1..Len(EmittedRows)}
          = {Cells(arg.rows[i]) : i \in 1..Len(arg.rows)}

\* C25 as stated: the rows come out ordered by the value of the sort field,
\* non-decreasing, or non-increasing with reverse, each input row once
\* (totals-only output aside).
C25_SortedByValue ==
    (op = "showtable" /\ ret.exc = "" /\ ~config.totalsonly) =>
        /\ EachRowOnce
        /\ \A i, j \in 1..Len(EmittedRows) :
              i < j => IF config.reverse
                       THEN ~ValueLess(SortField, SortValue(EmittedRows[i]),
                                       SortValue(EmittedRows[j]))
                       ELSE ~ValueLess(SortField, SortValue(EmittedRows[j]),
                                       SortValue(EmittedRows[i]))

\* the output has per-row entries: raw format without totals-only, JSON
\* format without totals
RowsPrinted ==
    \/ config.format = "raw" /\ ~config.totalsonly
    \/ config.format = "json" /\ ~config.totals

\* C25: when the output has per-row entries, every input row is printed
\* exactly once and the rows are ordered by the sort key (the value of the
\* sort field, for the command field its lower-case form): non-decreasing,
\* or non-increasing with reverse; otherwise no row is printed.
C25_SortedByKey ==
    (op = "showtable" /\ ret.exc = "") =>
        IF RowsPrinted
        THEN /\ EachRowOnce
             /\ \A i, j \in 1..Len(EmittedRows) :
                   i < j => IF config.reverse
                            THEN ~ValueLess(SortField, SortKey(EmittedRows[i]),
                                            SortKey(EmittedRows[j]))
                            ELSE ~ValueLess(SortField, SortKey(EmittedRows[j]),
                                            SortKey(EmittedRows[i]))
        ELSE EmittedRows = <<>>

\* sorted by pid in reverse: the rows were given in ascending order and come
\* out in descending order
C25_Witness ==
    /\ op = "showtable" /\ ret.exc = ""
    /\ config.sort = "pid" /\ config.reverse /\ config.format = "raw"
    /\ Len(arg.rows) = MaxPid
    /\ \A i \in 1..Len(arg.rows) : arg.rows[i].pid = i
    /\ \A i \in 1..Len(EmittedRows) : EmittedRows[i][1] = MaxPid + 1 - i

\* C26: with totals-only output, showtable prints the totals and no per-row
\* entry, however many rows there are: in raw format the header and the
\* separator (unless no_header suppresses them) and one totals line, in JSON
\* format an object with the key "totals" and no key "processes".
C26_TotalsOnly ==
    (op = "showtable" /\ ret.exc = "" /\ config.totalsonly) =>
        /\ EmittedRows = <<>>
        /\ config.format = "raw" =>
              ret.val.raw = (IF config.no_header THEN <<>>
                             ELSE <<HeaderLine, RuleLine>>)
                            \o <<[t |-> "totals", v |-> TotalsCells(arg.rows)]>>
        /\ config.format = "json" =>
              /\ DOMAIN ret.val.json = {"totals"}
              /\ ret.val.json.totals = TotalsCells(arg.rows)

\* totals only, raw, of MaxPid rows: header, separator and the totals line
C26_Witness ==
    /\ op = "showtable" /\ ret.exc = ""
    /\ config.totalsonly /\ config.format = "raw" /\ ~config.no_header
    /\ Len(arg.rows) = MaxPid
    /\ Len(ret.val.raw) = 3
    /\ ret.val.raw[3].t = "totals"
    /\ ret.val.raw[3].v[1] = MaxPid

----------------------------------------------------------------------------
(* The helpers' mapping filter (smem2.py:954-992) *)

\* C27: the helpers computing the /dev/zero and SysV-shared totals never
\* change the shared configuration: across get_system_data (detailed mode
\* included) config.mapfilter keeps the value the caller set before the call.
C27_MapFilterPreserved ==
    [][GetSystemData => config'.mapfilter = config.mapfilter]_vars

----------------------------------------------------------------------------
(* SpecMain: a system run of main (__main__.py:941-958) *)

\* showsystem as main reaches it: after setdatasources returned, for
\* config.system without config.mappings. ret holds the lines it gets from
\* get_system_data, and config the mapping filter the helpers leave in it.
ShowSystem ==
    /\ op = "setdatasources" /\ ret.exc = ""
    /\ ~config.mappings /\ config.system
    /\ Run("showsystem", get_system_data(config))
    /\ config' = [config EXCEPT !.mapfilter = SystemMapFilter(config)]
    /\ UNCHANGED arg

\* what parse_arguments leaves in config for -w and -W runs
MainConfigs ==
    {[DefaultConfig EXCEPT !.system = TRUE, !.sysdetail = sd,
                           !.mapfilter = mf, !.columns = co, !.groupcmd = gc]
        : sd \in BOOLEAN, mf \in {NoPattern, Search(<<Lit("l")>>)},
          co \in {<<>>, ColAll}, gc \in BOOLEAN}

InitMain == Start(MainConfigs, {PlainImage, SharedImage}, Machines, {NoArg})

NextMain == SetDataSources \/ ShowSystem

SpecMain == InitMain /\ [][NextMain]_vars

\* the helpers ran: pidmaps filtered the mappings of every listed process by
\* their pattern, under the config the run is left with
HelperFilterApplied ==
    /\ op = "showsystem"
    /\ config.mapfilter \in {SysvPattern, DevZeroPattern}
    /\ pids(config) # <<>>

\* C28: whenever pidmaps applies a mapping-name filter in a run, be it the
\* caller's or the one the helpers mapshared and mapdevzero set, the fast
\* path is off (config.rollup false): the filter is matched against the
\* names of the mappings, never against the single rollup record.
C28_FilterOnFullScan == HelperFilterApplied => ~config.rollup

----------------------------------------------------------------------------
(* SpecRace: maptotals on one pid, step by step, beside a changing /proc
   (smem2.py:495-508) *)

\* smem2.py:497-501: the filters, then the first read, "maps = pidmaps(p)"
ReadMaps ==
    /\ op = ""
    /\ ~Skipped(config, arg.pid)
    /\ Run("maptotals.maps", pidmaps(config, arg.pid, FALSE))
    /\ UNCHANGED <<config, arg>>

\* smem2.py:502-508: the rest of the loop body and the return; pidtotals
\* reads the mapping data again, from /proc as it is now
AddTotals ==
    /\ op = "maptotals.maps"
    /\ Run("maptotals.done",
           maptotalsBody(config, <<arg.pid>>, <<>>, ret,
                         pidtotals(config, arg.pid)))
    /\ UNCHANGED <<config, arg>>

\* the environment: process p exits, its /proc files are gone
ProcessExits(p) ==
    /\ op \in {"", "maptotals.maps"}
    /\ procfs[p] # Exited
    /\ procfs' = [procfs EXCEPT ![p] = Exited]
    /\ UNCHANGED <<config, meminfo, op, arg, ret>>

\* the environment: the mapping files of p become unreadable (the process
\* changes its credentials)
ProcessHides(p) ==
    /\ op \in {"", "maptotals.maps"}
    /\ procfs[p].smaps # Denied
    /\ procfs' = [procfs EXCEPT ![p].smaps = Denied, ![p].smaps_rollup = Denied]
    /\ UNCHANGED <<config, meminfo, op, arg, ret>>

RaceConfigs ==
    {Configured([DefaultConfig EXCEPT !.rollup = ro, !.rssdetail = rd,
                                      !.pssdetail = pd])
        : ro \in BOOLEAN, rd \in BOOLEAN, pd \in BOOLEAN}

InitRace ==
    Start(RaceConfigs, ProcImages({<<"a", NUL>>}, {OneLib, TwoLibs}),
          {NoMeminfo}, {[NoArg EXCEPT !.pid = p] : p \in Pid})

NextRace ==
    \/ ReadMaps
    \/ AddTotals
    \/ \E p \in Pid : ProcessExits(p)
    \/ \E p \in Pid : ProcessHides(p)

SpecRace == InitRace /\ [][NextRace]_vars

\* the keys pidtotals gives every entry
TotalsKeysOfEntry == SummedKeys \cup {"maps"}

\* C29: whatever the environment does between the reads (a process may exit
\* or become unreadable), every entry of the by-process result of maptotals
\* carries the totals pss, rss, uss, swap, size and the mapping count: none
\* is left with its mapping records and no totals.
C29_EntriesCarryTotals ==
    (op = "maptotals.done" /\ ret.exc = "") =>
        \A p \in DOMAIN ret.val :
            /\ TotalsKeysOfEntry \subseteq DOMAIN ret.val[p]
            /\ ret.val[p]["maps"] \in Nat

----------------------------------------------------------------------------
(* The system breakdown adds up (smem2.py:859-951) *)

\* the rows that partition the physical memory: all 5 of basic mode, the
\* first 13 of detailed mode (the extended rows carry no used value)
PrimaryRows == IF config.sysdetail THEN 1..13 ELSE 1..5

\* the sum of the used values of rows, a set of row numbers of ret.val
UsedSum(rows) ==
    LET order == SetToSeq(rows)
    IN SumSeq([i \in 1..Len(order) |-> ret.val[order[i]][2]])

\* total - memtotal - kernel, which fh floors at 0
HardwareRemainder ==
    totalmem(config).val - meminfo.mem.data["memtotal"] - kernelsize(config)

\* detailed mode: memtotal less free memory, processes and the eight kernel
\* and cache rows, which "unknown" clamps at 0
UnknownRemainder ==
    meminfo.mem.data["memtotal"] - UsedSum((3..10) \cup {12, 13})

NoClampApplies ==
    /\ HardwareRemainder >= 0
    /\ config.sysdetail => UnknownRemainder >= 0

====
